---- MODULE Spec2Model ----
(***************************************************************************)
(* PitchTrainer: the evaluation normalizer                                 *)
(* EvaluationService.validateEvaluationResult                              *)
(* (src/src/services/TranscriptionService.js, lines 305-365), and the      *)
(* server that calls it for POST /api/evaluate and stores the result       *)
(* (src/unnamed/part_006, src/src/services/DatabaseService.js).            *)
(* Spec is one call of the function, and its repetition on the result;     *)
(* ServerSpec is the server with its requests interleaved, TranscriptSpec  *)
(* the same server with transcripts that differ in their text alone.       *)
(* UploadSpec is POST /api/transcribe.  StoreSpec is                       *)
(* DatabaseService.storeEvaluation called directly, StatisticsSpec adds    *)
(* getStatistics and the clock of the database.  BrowserSpec is the page:  *)
(* App and RecordingInterface (src/src/App.jsx, src/unnamed/part_000);     *)
(* BrowserLiveSpec adds the fairness of the page's own tasks.              *)
(*                                                                         *)
(* JavaScript values are modelled by tagged records.  A scalar is          *)
(* [t, s, n]; a KPI category is [t, ent] where ent maps the sub-criterion  *)
(* names that are own properties of the object to their numbers; the kpis  *)
(* value is [t, n, cats] where cats maps the category keys that are own    *)
(* properties to their category values.  The numbers the function        *)
(* computes are exact rationals [nan, num, den] in lowest terms, or NaN.   *)
(* The rounding error of the double arithmetic of lines 346-347 is far     *)
(* smaller than the distance of any weighted sum of these scores from the  *)
(* nearest tie of line 361 unless the sum is such a tie, so it is modelled *)
(* where it shows: at a tie reached through inexact operations, Math.round *)
(* sees a double just below the tie or not, and either may happen.         *)
(***************************************************************************)
EXTENDS Integers, Sequences, FiniteSets, TLC

VARIABLES result, pc, outcome, roundsBelow, again,
          req, evaluations, proposalRows, stats,
          transcriptions, calls, clock, statistics, app, rec, runs, io

\* one call of validateEvaluationResult and its repetition
callVars == <<result, pc, outcome, again>>

\* the server: its requests in flight, the two tables, and a client that
\* reads the statistics
serverVars == <<req, evaluations, proposalRows, stats>>

\* the requests of POST /api/transcribe
uploadVars == <<transcriptions>>

\* the calls of DatabaseService.storeEvaluation and getStatistics made
\* directly, and the clock of the database
storeVars == <<calls, clock, statistics>>

\* the browser: the App component, the RecordingInterface it mounts, the
\* asynchronous work the page has pending, and what each recording has
\* recorded and requested
browserVars == <<app, rec, runs, io>>

otherVars == <<uploadVars, storeVars, browserVars>>

vars == <<result, pc, outcome, roundsBelow, again,
          req, evaluations, proposalRows, stats,
          transcriptions, calls, clock, statistics, app, rec, runs, io>>

-----------------------------------------------------------------------------
(* JavaScript scalars                                                      *)

Undefined == [t |-> "undefined", s |-> "", n |-> 0]

Null == [t |-> "null", s |-> "", n |-> 0]

Str(x) == [t |-> "string", s |-> x, n |-> 0]

Num(x) == [t |-> "number", s |-> "", n |-> x]

\* ToBoolean: undefined, null, "", 0 and false are falsy
Truthy(v) ==
    CASE v.t = "string" -> v.s # ""
      [] v.t \in {"number", "boolean"} -> v.n # 0
      [] v.t \in {"object", "array"} -> TRUE
      [] OTHER -> FALSE

\* a ?? d: the default for null and undefined only
OrElseNullish(v, d) == IF v.t \in {"null", "undefined"} THEN d ELSE v

\* a || d
OrElse(v, d) == IF Truthy(v) THEN v ELSE d

-----------------------------------------------------------------------------
(* JavaScript numbers computed by the function: exact rationals or NaN     *)

Abs(a) == IF a < 0 THEN -a ELSE a

RECURSIVE GCD(_, _)
GCD(a, b) == IF b = 0 THEN a ELSE GCD(b, a % b)

NaN == [nan |-> TRUE, num |-> 0, den |-> 1]

\* the number a/b (b > 0) in lowest terms
Q(a, b) ==
    LET g == GCD(Abs(a), b)
    IN  [nan |-> FALSE, num |-> a \div g, den |-> b \div g]

Plus(x, y) ==
    IF x.nan \/ y.nan THEN NaN
    ELSE Q(x.num * y.den + y.num * x.den, x.den * y.den)

Times(x, y) ==
    IF x.nan \/ y.nan THEN NaN
    ELSE Q(x.num * y.num, x.den * y.den)

\* x / y for y >= 0; the only division by zero the function performs is
\* 0 / 0 (the sum of no scores over a length of 0), which is NaN
Divide(x, y) ==
    IF x.nan \/ y.nan \/ y.num = 0 THEN NaN
    ELSE Q(x.num * y.den, x.den * y.num)

\* a rounding that sends a tie away from zero
MathRoundHalfAwayFromZero(x) ==
    IF x.nan THEN NaN
    ELSE IF x.num >= 0 THEN Q((2 * x.num + x.den) \div (2 * x.den), 1)
    ELSE Q(-((x.den - 2 * x.num) \div (2 * x.den)), 1)

\* Math.round: the nearest integer, a tie going toward +Infinity,
\* that is floor(x + 1/2)
MathRound(x) ==
    IF x.nan THEN NaN
    ELSE Q((2 * x.num + x.den) \div (2 * x.den), 1)

-----------------------------------------------------------------------------
(* Objects                                                                 *)

NoProps == [k \in {} |-> 0]

\* a KPI category that is an object with the own properties ent
Obj(ent) == [t |-> "object", ent |-> ent]

\* a KPI category that is not an object: null, undefined or a number
NonObj(t) == [t |-> t, ent |-> NoProps]

\* the own enumerable properties a spread ...v copies: those of an object,
\* none of null, undefined, a number or a boolean
OwnProps(v) == IF v.t = "object" THEN v.cats ELSE NoProps

\* { ...a, ...b }: the properties of a, overwritten key by key by those of b
Spread(a, b) ==
    [k \in (DOMAIN a) \cup (DOMAIN b) |-> IF k \in DOMAIN b THEN b[k] ELSE a[k]]

\* the kpis value {} of `result.kpis || {}`
EmptyKpis == [t |-> "object", n |-> 0, cats |-> NoProps]

\* the rubric the evaluation provider is asked to score, category by
\* category: buildEvaluationPrompt, lines 239-260 and 264-288
rubric ==
    [call_to_action |->
        {"specific_referral_ask", "contact_method_clarity",
         "target_client_definition", "actionable_request"},
     structure_time |->
        {"introduction_completeness", "word_count_optimization",
         "clear_flow_organization", "time_management"},
     content_clarity |->
        {"jargon_free_language", "single_focus_maintenance",
         "benefit_articulation", "credibility_markers"},
     memorability |->
        {"hook_tagline_presence", "unique_element", "concrete_examples"}]

\* defaults that lack a sub-criterion of the rubric
defaultKpisLackingOne ==
    [call_to_action |->
        Obj([specific_referral_ask |-> 0, contact_method_clarity |-> 0,
             target_client_definition |-> 0, actionable_request |-> 0]),
     structure_time |->
        Obj([introduction_completeness |-> 0, word_count_optimization |-> 0,
             clear_flow_organization |-> 0, time_management |-> 0]),
     content_clarity |->
        Obj([jargon_free_language |-> 0, single_focus_maintenance |-> 0,
             benefit_articulation |-> 0, credibility_markers |-> 0]),
     memorability |->
        Obj([hook_tagline_presence |-> 0, unique_element |-> 0])]

\* lines 307-331
defaultKpis ==
    [call_to_action |->
        Obj([specific_referral_ask |-> 0, contact_method_clarity |-> 0,
             target_client_definition |-> 0, actionable_request |-> 0]),
     structure_time |->
        Obj([introduction_completeness |-> 0, word_count_optimization |-> 0,
             clear_flow_organization |-> 0, time_management |-> 0]),
     content_clarity |->
        Obj([jargon_free_language |-> 0, single_focus_maintenance |-> 0,
             benefit_articulation |-> 0, credibility_markers |-> 0]),
     memorability |->
        Obj([hook_tagline_presence |-> 0, unique_element |-> 0,
             concrete_examples |-> 0])]

\* Object.entries(weights), in insertion order: lines 336-341
weightOrder ==
    <<"call_to_action", "structure_time", "content_clarity", "memorability">>

\* weights that count the four categories alike
weightsAllEqual ==
    [call_to_action |-> Q(1, 4), structure_time |-> Q(1, 4),
     content_clarity |-> Q(1, 4), memorability |-> Q(1, 4)]

\* 0.4, 0.25, 0.2, 0.15
weights ==
    [call_to_action |-> Q(2, 5), structure_time |-> Q(1, 4),
     content_clarity |-> Q(1, 5), memorability |-> Q(3, 20)]

-----------------------------------------------------------------------------
(* validateEvaluationResult, lines 305-365                                 *)

\* reading a property of null or undefined throws a TypeError
IsNullish(v) == v.t \in {"null", "undefined"}

\* kpis[category]: undefined when kpis has no such own property
prop(kpis, category) ==
    IF category \in DOMAIN kpis THEN kpis[category] ELSE NonObj("undefined")

\* a merge that fills a supplied category, sub-criterion by sub-criterion,
\* with the defaults it lacks
mergedKpisDeep(r) ==
    LET supplied == OwnProps(OrElse(r.kpis, EmptyKpis)) IN
    [c \in (DOMAIN defaultKpis) \cup (DOMAIN supplied) |->
        IF c \notin DOMAIN supplied THEN defaultKpis[c]
        ELSE IF c \in DOMAIN defaultKpis /\ supplied[c].t = "object"
             THEN Obj(Spread(defaultKpis[c].ent, supplied[c].ent))
             ELSE supplied[c]]

\* a merge that spreads the defaults last, over the supplied categories
mergedKpisDefaultsLast(r) ==
    Spread(OwnProps(OrElse(r.kpis, EmptyKpis)), defaultKpis)

\* line 333: const kpis = { ...defaultKpis, ...(result.kpis || {}) }
mergedKpis(r) == Spread(defaultKpis, OwnProps(OrElse(r.kpis, EmptyKpis)))

RECURSIVE SumOver(_, _)
SumOver(f, S) ==
    IF S = {} THEN 0
    ELSE LET k == CHOOSE x \in S : TRUE
         IN  f[k] + SumOver(f, S \ {k})

\* line 345: Object.values(kpis[category]) lists the values of the own
\* properties of an object and is empty for a number; the sum and the length
\* of line 346 are taken over it
categoryScoresSum(cat) == SumOver(cat.ent, DOMAIN cat.ent)

categoryScoresLength(cat) == Cardinality(DOMAIN cat.ent)

\* the sum of the scores, not divided by their number
categorySumUndivided(cat) == Q(categoryScoresSum(cat), 1)

\* the sum of the scores divided by four, whatever their number
categoryAvgOfFour(cat) == Divide(Q(categoryScoresSum(cat), 1), Q(4, 1))

\* line 346: categoryScores.reduce((sum, score) => sum + score, 0)
\*             / categoryScores.length
categoryAvg(cat) ==
    Divide(Q(categoryScoresSum(cat), 1), Q(categoryScoresLength(cat), 1))

\* lines 343-348: the loop over Object.entries(weights), from entry i on
RECURSIVE scoreLoop(_, _, _)
scoreLoop(kpis, i, overallScore) ==
    IF i > Len(weightOrder) THEN overallScore
    ELSE scoreLoop(kpis, i + 1,
                   Plus(overallScore,
                        Times(categoryAvg(prop(kpis, weightOrder[i])),
                              weights[weightOrder[i]])))

\* line 345 throws when kpis[category] is null or undefined
ObjectValuesThrows(kpis) ==
    \E i \in 1..Len(weightOrder) : IsNullish(prop(kpis, weightOrder[i]))

RECURSIVE IsPowerOfTwo(_)
IsPowerOfTwo(d) == d = 1 \/ (d % 2 = 0 /\ IsPowerOfTwo(d \div 2))

\* line 347: the double product categoryAvg * weight is the exact product
\* when categoryAvg is 0, and when categoryAvg and weight are binary
\* fractions (the weight 0.25); 0.4, 0.2 and 0.15 are no doubles, and a
\* product with one of them is rounded
exactTerm(avg, weight) ==
    avg.nan \/ avg.num = 0 \/ (IsPowerOfTwo(avg.den) /\ IsPowerOfTwo(weight.den))

\* lines 343-348 compute overallScore without any rounding error
exactInDoubles(kpis) ==
    \A i \in 1..Len(weightOrder) :
        exactTerm(categoryAvg(prop(kpis, weightOrder[i])), weights[weightOrder[i]])

\* x is half-way between two integers
IsTie(x) == ~x.nan /\ x.den = 2

\* line 361: Math.round(overallScore * 10) / 10.  When overallScore * 10 is
\* a tie and was reached through rounded operations, the double is the tie
\* or lies next to it: below it, Math.round yields the integer below
roundedScore(overallScore, exact, below) ==
    LET x == Times(overallScore, Q(10, 1)) IN
    IF IsTie(x) /\ ~exact /\ below
    THEN Divide(Plus(MathRound(x), Q(-1, 1)), Q(10, 1))
    ELSE Divide(MathRound(x), Q(10, 1))

Min(a, b) == IF a < b THEN a ELSE b

\* a slice that keeps every entry
sliceAll(items) == items

\* a slice that starts behind the first entry: .slice(1, 4)
sliceFromOne(items) ==
    IF Len(items) < 2 THEN <<>>
    ELSE SubSeq(items, 2, IF Len(items) < 4 THEN Len(items) ELSE 4)

\* line 351: .slice(0, 3)
slice3(items) == SubSeq(items, 1, Min(3, Len(items)))

\* a check of the priority that ignores the case of the letters
validPriorityAnyCase(p) ==
    IF p.t = "string" /\ p.s \in {"HIGH", "MEDIUM", "LOW"} THEN p
    ELSE IF p.t = "string" /\ p.s \in {"high", "medium", "low"}
         THEN Str(CASE p.s = "high" -> "HIGH" [] p.s = "medium" -> "MEDIUM"
                    [] OTHER -> "LOW")
         ELSE Str("MEDIUM")

\* line 355: Array.prototype.includes compares with SameValueZero, so only
\* the three strings themselves are kept
validPriority(p) ==
    IF p.t = "string" /\ p.s \in {"HIGH", "MEDIUM", "LOW"} THEN p
    ELSE Str("MEDIUM")

\* a callback that copies the entry and then sets the four fields
mapProposalSpreading(proposal) ==
    [type |-> OrElse(proposal.type, Str("GENERAL_IMPROVEMENT")),
     title |-> OrElse(proposal.title, Str("Verbesserung")),
     description |-> OrElse(proposal.description, Str("Siehe Bewertungsdetails")),
     priority |-> validPriority(proposal.priority),
     extra |-> proposal.extra]

\* lines 351-356: the callback of .map
mapProposal(proposal) ==
    [type |-> OrElse(proposal.type, Str("GENERAL_IMPROVEMENT")),
     title |-> OrElse(proposal.title, Str("Verbesserung")),
     description |-> OrElse(proposal.description, Str("Siehe Bewertungsdetails")),
     priority |-> validPriority(proposal.priority)]

\* line 351: (result.proposals || []) is [] for a falsy value
proposalsOrEmpty(r) == IF Truthy(r.proposals) THEN r.proposals.items ELSE <<>>

\* lines 351-352 throw when a truthy result.proposals is no array (it has no
\* slice or no map), and when one of the first three entries is null or
\* undefined (proposal.type is read from it)
ProposalsThrow(r) ==
    \/ Truthy(r.proposals) /\ r.proposals.t # "array"
    \/ /\ Truthy(r.proposals)
       /\ r.proposals.t = "array"
       /\ \E i \in 1..Len(slice3(r.proposals.items)) :
              IsNullish(r.proposals.items[i])

\* the function threw a TypeError at this line and returned nothing
Thrown(line) ==
    [status |-> "TypeError", line |-> line, kpis |-> NoProps,
     proposals |-> <<>>, overall_score |-> NaN, word_count |-> Undefined,
     summary |-> Undefined]

\* below: whether the rounding errors of the double arithmetic leave
\* overallScore * 10 below the tie it stands for
validateEvaluationResult(r, below) ==
    IF IsNullish(r) THEN Thrown(333)
    ELSE LET kpis == mergedKpis(r) IN
         IF ObjectValuesThrows(kpis) THEN Thrown(345)
         ELSE IF ProposalsThrow(r) THEN Thrown(351)
         ELSE [status |-> "returned",
               line |-> 358,
               kpis |-> kpis,
               proposals |-> [i \in 1..Len(slice3(proposalsOrEmpty(r))) |->
                                 mapProposal(slice3(proposalsOrEmpty(r))[i])],
               overall_score |-> roundedScore(scoreLoop(kpis, 1, Q(0, 1)),
                                              exactInDoubles(kpis), below),
               word_count |-> OrElse(r.word_count, Num(0)),
               summary |-> OrElse(r.summary, Str("Bewertung abgeschlossen"))]

-----------------------------------------------------------------------------
(* The arguments the function is called with                               *)

\* result.kpis when it is absent, null, a number, or an object
UndefinedKpis == [t |-> "undefined", n |-> 0, cats |-> NoProps]

NullKpis == [t |-> "null", n |-> 0, cats |-> NoProps]

NumberKpis(n) == [t |-> "number", n |-> n, cats |-> NoProps]

ObjectKpis(cats) == [t |-> "object", n |-> 0, cats |-> cats]

\* result.proposals when it is absent, null or a number, or an array
ScalarProposals(t, n) == [t |-> t, n |-> n, items |-> <<>>]

ArrayProposals(items) == [t |-> "array", n |-> 0, items |-> items]

\* one entry of result.proposals that is an object; extra is a property
\* the entry has besides the four the function reads (undefined: none)
ProposalWithExtra(type, title, description, priority, extra) ==
    [t |-> "object", type |-> type, title |-> title,
     description |-> description, priority |-> priority, extra |-> extra]

Proposal(type, title, description, priority) ==
    ProposalWithExtra(type, title, description, priority, Undefined)

\* an entry that is null, undefined or a number: every property read from a
\* number is undefined
NonObjProposal(t) ==
    [t |-> t, type |-> Undefined, title |-> Undefined,
     description |-> Undefined, priority |-> Undefined, extra |-> Undefined]

\* an object-shaped argument
RawObject(kpis, proposals, overall_score, word_count, summary) ==
    [t |-> "object", kpis |-> kpis, proposals |-> proposals,
     overall_score |-> overall_score, word_count |-> word_count,
     summary |-> summary]

\* an argument that is null, undefined, a number, a string or a boolean:
\* every property read from a primitive is undefined
RawNonObject(t) ==
    [t |-> t, kpis |-> UndefinedKpis,
     proposals |-> ScalarProposals("undefined", 0),
     overall_score |-> Undefined, word_count |-> Undefined,
     summary |-> Undefined]

\* an object with kpis only
KpisOnly(cats) ==
    RawObject(ObjectKpis(cats), ScalarProposals("undefined", 0),
              Undefined, Undefined, Undefined)

-----------------------------------------------------------------------------
(* Arguments taken from the tests                                          *)

\* tests/unit/EvaluationService.test.js, lines 78-115 (the overall_score the
\* test supplies is 82.5; the function never reads it)
CompleteResult ==
    RawObject(
        ObjectKpis(
            [call_to_action |->
                Obj([specific_referral_ask |-> 85, contact_method_clarity |-> 90,
                     target_client_definition |-> 80, actionable_request |-> 88]),
             structure_time |->
                Obj([introduction_completeness |-> 75, word_count_optimization |-> 85,
                     clear_flow_organization |-> 80, time_management |-> 90]),
             content_clarity |->
                Obj([jargon_free_language |-> 95, single_focus_maintenance |-> 88,
                     benefit_articulation |-> 82, credibility_markers |-> 78]),
             memorability |->
                Obj([hook_tagline_presence |-> 60, unique_element |-> 70,
                     concrete_examples |-> 65])]),
        ArrayProposals(<<Proposal(Str("CTA_SPECIFICITY"),
                                  Str("Spezifischere Empfehlung"),
                                  Str("Konkretere Empfehlungsanfrage formulieren"),
                                  Str("HIGH"))>>),
        Num(82), Num(105), Str("Guter Pitch mit Verbesserungspotential"))

\* the same result without the overall_score field
CompleteResultNoScore == [CompleteResult EXCEPT !.overall_score = Undefined]

\* lines 133-139
incompleteResult ==
    RawObject(
        ObjectKpis([call_to_action |-> Obj([specific_referral_ask |-> 80])]),
        ArrayProposals(<<>>), Undefined, Undefined, Undefined)

\* lines 217-224
SingleScoreResult ==
    KpisOnly([call_to_action |-> Obj([score |-> 80]),
              structure_time |-> Obj([score |-> 90]),
              content_clarity |-> Obj([score |-> 70]),
              memorability |-> Obj([score |-> 60])])

\* lines 233-240
PairScoreResult ==
    KpisOnly([call_to_action |-> Obj([score1 |-> 83, score2 |-> 87]),
              structure_time |-> Obj([score1 |-> 77, score2 |-> 83]),
              content_clarity |-> Obj([score1 |-> 71, score2 |-> 79]),
              memorability |-> Obj([score1 |-> 65, score2 |-> 75])])

\* the full rubric with every sub-criterion at a score x
UniformResult(x) ==
    KpisOnly([c \in DOMAIN rubric |-> Obj([nm \in rubric[c] |-> x])])

TestResults ==
    {CompleteResult, CompleteResultNoScore, incompleteResult,
     SingleScoreResult, PairScoreResult,
     UniformResult(0), UniformResult(100), UniformResult(101)}

-----------------------------------------------------------------------------
(* Arguments drawn from bounded sets                                       *)

\* most sub-criterion entries in the kpis of a drawn argument
MaxEntries == 2

\* most categories of a drawn argument that hold no entry and are present:
\* null, undefined, a number, or the empty object
MaxSpecial == 1

\* most entries of a drawn proposals array
MaxProposals == 4

\* the scores a drawn entry takes: in the range 0..100 and outside it
SubScores == {-1, 0, 85, 101}

\* the category keys of a drawn kpis: the rubric's and an unknown one
AllCats == (DOMAIN rubric) \cup {"bonus"}

\* the sub-criterion names of a drawn category: one of the rubric (none for
\* the unknown category) and an unknown one
InputNames(c) ==
    CASE c = "call_to_action" -> {"specific_referral_ask", "score"}
      [] c = "structure_time" -> {"introduction_completeness", "score"}
      [] c = "content_clarity" -> {"jargon_free_language", "score"}
      [] c = "memorability" -> {"hook_tagline_presence", "score"}
      [] OTHER -> {"score"}

EntryKeys == {<<c, nm>> : c \in AllCats, nm \in {"specific_referral_ask",
                 "introduction_completeness", "jargon_free_language",
                 "hook_tagline_presence", "score"}}

InputKeys == {e \in EntryKeys : e[2] \in InputNames(e[1])}

CatsOf(E) == {e[1] : e \in E}

SpecialKinds == {"null", "undefined", "number", "object"}

SpecialCat(kind) == IF kind = "object" THEN Obj(NoProps) ELSE NonObj(kind)

\* the kpis object with the entries E valued by v and the entry-less
\* categories sp
DrawnCats(E, v, sp) ==
    [c \in CatsOf(E) \cup DOMAIN sp |->
        IF c \in DOMAIN sp THEN SpecialCat(sp[c])
        ELSE Obj([nm \in {e[2] : e \in {x \in E : x[1] = c}} |-> v[<<c, nm>>]])]

SpecialChoices(E) ==
    UNION {[T -> SpecialKinds] :
              T \in {T \in SUBSET (AllCats \ CatsOf(E)) : Cardinality(T) <= MaxSpecial}}

EntrySets == {E \in SUBSET InputKeys : Cardinality(E) <= MaxEntries}

\* the entries of a drawn proposals array
DrawnProposal ==
    {NonObjProposal("null"), NonObjProposal("number"),
     Proposal(Undefined, Undefined, Undefined, Undefined),
     Proposal(Str("CTA_CLARITY"), Str("Titel"), Str("Text"), Str("LOW")),
     Proposal(Str("TEST"), Str(""), Null, Str("INVALID")),
     ProposalWithExtra(Num(7), Str("Titel"), Num(0), Str("high"), Str("id-1")),
     Proposal(Str("TEST"), Str("Titel"), Str("Text"), Num(1))}

ProposalArrays == UNION {[1..n -> DrawnProposal] : n \in 0..MaxProposals}

ScalarValues == {Undefined, Null, Num(0), Num(105), Str(""), Str("Guter Pitch")}

NonObjectTypes == {"null", "undefined", "number", "string", "boolean"}

\* the arguments of the call: those of the tests, objects with drawn kpis,
\* objects whose four categories hold one drawn score each under a name of
\* the caller's, objects with drawn proposals, objects with drawn scalar fields and a kpis
\* that is no object, and values that are no object
IsRawInput(r) ==
    \/ r \in TestResults
    \/ \E E \in EntrySets : \E v \in [E -> SubScores] : \E sp \in SpecialChoices(E) :
          r = KpisOnly(DrawnCats(E, v, sp))
    \/ \E f \in [DOMAIN rubric -> SubScores] :
          r = KpisOnly([c \in DOMAIN rubric |-> Obj([score |-> f[c]])])
    \/ \E items \in ProposalArrays :
          r = RawObject(UndefinedKpis, ArrayProposals(items),
                        Undefined, Undefined, Undefined)
    \/ \E t \in {"undefined", "null", "number"} : \E n \in {0, 5} :
          r = RawObject(UndefinedKpis, ScalarProposals(t, n),
                        Undefined, Undefined, Undefined)
    \/ \E k \in {UndefinedKpis, NullKpis, NumberKpis(0), NumberKpis(5)} :
       \E o \in {Undefined, Num(50)} : \E w, sm \in ScalarValues :
          r = RawObject(k, ScalarProposals("undefined", 0), o, w, sm)
    \/ \E t \in NonObjectTypes : r = RawNonObject(t)

-----------------------------------------------------------------------------
(* The outcome of a call and its effect on the argument                    *)

\* no call made
NoOutcome ==
    [status |-> "none", line |-> 0, kpis |-> NoProps, proposals |-> <<>>,
     overall_score |-> NaN, word_count |-> Undefined, summary |-> Undefined]

\* an argument left with its kpis replaced by the merged kpis
resultAfterAssigningKpis(r) ==
    IF IsNullish(r) \/ r.t # "object" THEN r
    ELSE [r EXCEPT !.kpis = ObjectKpis(mergedKpis(r))]

\* the argument after the call: lines 305-365 assign to the locals
\* defaultKpis, kpis, weights, overallScore and proposals only, every one a
\* fresh object or a number, and to no property of result or of an object
\* reachable from it
resultAfter(r) == r

\* the call reaches line 361 with overallScore * 10 at a tie that the double
\* arithmetic reached through rounded operations: the only case in which
\* its rounding error shows in the result
AtInexactTie(r) ==
    /\ ~IsNullish(r)
    /\ ~ObjectValuesThrows(mergedKpis(r))
    /\ IsTie(Times(scoreLoop(mergedKpis(r), 1, Q(0, 1)), Q(10, 1)))
    /\ ~exactInDoubles(mergedKpis(r))

RoundingErrors(r) == IF AtInexactTie(r) THEN BOOLEAN ELSE {FALSE}

-----------------------------------------------------------------------------
(* The server: POST /api/evaluate and GET /api/statistics                  *)
(* (src/unnamed/part_006, lines 121-176), EvaluationService.evaluate       *)
(* (lines 163-226) and DatabaseService.storeEvaluation (lines 115-151).    *)
(* A handler runs from one await to the next without interruption; the     *)
(* awaits are the call of the evaluation provider and the INSERT           *)
(* statements.                                                             *)

\* most POST /api/evaluate requests, in flight at the same time or not
MaxRequests == 2

Reqs == 1..MaxRequests

\* the bodies of the requests: of those of
\* tests/system/functionality.test.js, lines 207-212, an empty transcript, a
\* missing transcript, a missing duration and a duration of 30; a duration
\* of 0; and the two valid ones
Body(transcript, duration) == [transcript |-> transcript, duration |-> duration]

Bodies ==
    {Body(Str(""), Num(45)), Body(Str("Test"), Num(30)),
     Body(Undefined, Num(45)), Body(Str("Test"), Undefined),
     Body(Str("Test"), Num(0)),
     Body(Str("Test"), Num(45)), Body(Str("Test"), Num(60))}

\* valid bodies that differ in the text of the transcript: two transcripts
\* of one word and one of two words, for the same duration
TranscriptBodies ==
    {Body(Str("Test"), Num(45)), Body(Str("Pitch"), Num(45)),
     Body(Str("Mein Pitch"), Num(45))}

\* transcript.length
transcriptLength(transcript) ==
    CASE transcript.s = "Test" -> 4
      [] transcript.s = "Pitch" -> 5
      [] transcript.s = "Mein Pitch" -> 10
      [] OTHER -> 0

\* transcript.split(' ').length: a text without a space is one piece, the
\* empty text too
splitLength(transcript) == IF transcript.s = "Mein Pitch" THEN 2 ELSE 1

\* a check that lets every duration pass
checkBodyAnyDuration(body) ==
    IF ~Truthy(body.transcript) \/ ~Truthy(body.duration) THEN "missing"
    ELSE "ok"

\* part_006, lines 125-131
checkBody(body) ==
    IF ~Truthy(body.transcript) \/ ~Truthy(body.duration) THEN "missing"
    ELSE IF ~(body.duration.t = "number" /\ body.duration.n \in {45, 60})
         THEN "duration"
         ELSE "ok"

NoResponse ==
    [status |-> 0, error |-> Undefined, message |-> Undefined, body |-> NoProps]

\* res.status(400).json({ error })
badRequest(error) ==
    [status |-> 400, error |-> Str(error), message |-> Undefined,
     body |-> NoProps]

\* a catch that answers 502 without a message
handlerCatchBadGateway(message) ==
    [status |-> 502, error |-> Str("Evaluation failed"), message |-> Undefined,
     body |-> NoProps]

\* part_006, lines 156-161
handlerCatch(message) ==
    [status |-> 500, error |-> Str("Evaluation failed"), message |-> Str(message),
     body |-> NoProps]

\* part_006, lines 150-155: the fields of the body of the 200 answer
okResponse(evaluation) ==
    [status |-> 200, error |-> Undefined, message |-> Undefined,
     body |-> [kpis |-> evaluation.kpis,
               proposals |-> evaluation.proposals,
               evaluation_time |-> "evalDuration",
               overall_score |-> evaluation.overall_score]]

\* the ways the call of the evaluation provider fails: an error response, a
\* timeout, no connection
UpstreamFailures == {"response", "ECONNABORTED", "ENOTFOUND"}

\* evaluate, lines 213-225: the message of the Error thrown for an error
\* caught; kind is "response", an error code, or the name of an exception
\* thrown inside the try block
evaluateCatch(kind) ==
    CASE kind = "response" -> "Mistral API error"
      [] kind = "ECONNABORTED" -> "Evaluation timeout - please try again"
      [] OTHER -> "Network error"

\* the content of the provider's answer: the JSON text of a value, or a text
\* that is no JSON
JsonOf(value) == [json |-> TRUE, value |-> value]

NotJson == [json |-> FALSE, value |-> RawNonObject("undefined")]

\* line 200: JSON.parse throws a SyntaxError for a text that is no JSON
JSONparseThrows(content) == ~content.json

JSONparse(content) == content.value

\* an answer with a category of the rubric that is null
NullCategoryResult == KpisOnly([structure_time |-> NonObj("null")])

\* an answer with a category outside the rubric that is null
NullExtraResult == KpisOnly([bonus |-> NonObj("null")])

\* the contents of the provider's answers
Contents ==
    {JsonOf(CompleteResult), JsonOf(incompleteResult),
     JsonOf(NullCategoryResult), JsonOf(NullExtraResult), NotJson}

\* storeEvaluation, lines 120-124 throw when a category of kpi_scores is
\* null or undefined
storeEvaluationThrows(kpi_scores) ==
    \E c \in DOMAIN kpi_scores : IsNullish(kpi_scores[c])

RECURSIVE SumOfAvgs(_, _)
SumOfAvgs(kpi_scores, S) ==
    IF S = {} THEN Q(0, 1)
    ELSE LET c == CHOOSE x \in S : TRUE
         IN  Plus(categoryAvg(kpi_scores[c]), SumOfAvgs(kpi_scores, S \ {c}))

\* the sum of the means of the categories, not divided by their number
storedSumOfAvgs(kpi_scores) == SumOfAvgs(kpi_scores, DOMAIN kpi_scores)

\* storeEvaluation, lines 120-124: the mean of the means of the categories
storedOverallScore(kpi_scores) ==
    Divide(SumOfAvgs(kpi_scores, DOMAIN kpi_scores),
           Q(Cardinality(DOMAIN kpi_scores), 1))

\* storeEvaluation, lines 133-136: the types of the proposals in the order
\* of their first occurrence, each with the number of its occurrences
RECURSIVE proposalCounts(_, _)
proposalCounts(proposals, counts) ==
    IF proposals = <<>> THEN counts
    ELSE LET type == Head(proposals).type
             at == {i \in 1..Len(counts) : counts[i].type = type}
         IN  proposalCounts(Tail(proposals),
                 IF at = {} THEN Append(counts, [type |-> type, count |-> 1])
                 ELSE [i \in 1..Len(counts) |->
                          IF i \in at
                          THEN [counts[i] EXCEPT !.count = @ + 1]
                          ELSE counts[i]])

\* an INSERT that stores nothing
evaluationsUnchanged(rows, row) == rows

\* lines 126-130: the INSERT into evaluations; the id is AUTOINCREMENT
evaluationsInsert(rows, row) ==
    Append(rows, [row EXCEPT !.id = Len(rows) + 1])

\* a request that has not been sent
IdleRequest ==
    [pc |-> "idle", body |-> Body(Undefined, Undefined), afterFirst |-> FALSE,
     upstreamCalls |-> 0, upstream |-> "none", content |-> NotJson,
     raw |-> RawNonObject("undefined"), evaluation |-> NoOutcome,
     counts |-> <<>>, rowId |-> 0, response |-> NoResponse]

\* no statistics read so far
NoCount == -1

ServerIdle ==
    /\ req = [r \in Reqs |-> IdleRequest]
    /\ evaluations = <<>>
    /\ proposalRows = <<>>
    /\ stats = [first |-> NoCount, second |-> NoCount, oks |-> 0]

\* the handler has answered and returned: its request, its response and
\* its locals are released
ClosedRequest == [IdleRequest EXCEPT !.pc = "closed"]

\* no handler has just answered
Quiet == \A q \in Reqs : req[q].pc # "responded"

\* the answer is sent; a 200 answer to a request sent after the first
\* reading of the statistics and before the second is counted
respond(r, request, response) ==
    /\ req' = [req EXCEPT ![r] = [request EXCEPT !.pc = "responded",
                                                 !.response = response]]
    /\ stats' = IF response.status = 200 /\ request.afterFirst
                   /\ stats.second = NoCount
                THEN [stats EXCEPT !.oks = @ + 1]
                ELSE stats

\* part_006, lines 121-136 and evaluate, lines 163-171: the request is
\* checked and answered 400, or the evaluation provider is called.  The
\* requests are numbered in the order in which they arrive.
PostEvaluateOf(r, bodies) ==
    /\ Quiet
    /\ req[r].pc = "idle"
    /\ \A q \in Reqs : q < r => req[q].pc # "idle"
    /\ \E body \in bodies :
          LET request == [req[r] EXCEPT
                             !.body = body,
                             !.afterFirst = (stats.first # NoCount
                                             /\ stats.second = NoCount)]
          IN  CASE checkBody(body) = "missing" ->
                      respond(r, request, badRequest("Missing transcript or duration"))
                [] checkBody(body) = "duration" ->
                      respond(r, request, badRequest("Duration must be 45 or 60 seconds"))
                [] OTHER ->
                      /\ req' = [req EXCEPT ![r] =
                                    [request EXCEPT !.pc = "upstream",
                                                    !.upstreamCalls = @ + 1]]
                      /\ UNCHANGED stats
    /\ UNCHANGED <<evaluations, proposalRows, callVars, roundsBelow, otherVars>>

PostEvaluate(r) == PostEvaluateOf(r, Bodies)

\* the same handler for requests that differ in the text of the transcript
PostTranscript(r) == PostEvaluateOf(r, TranscriptBodies)

\* axios.post rejects: evaluate, lines 213-225, throws an Error and the
\* handler, lines 156-161, answers
UpstreamFails(r) ==
    /\ Quiet
    /\ req[r].pc = "upstream"
    /\ \E kind \in UpstreamFailures :
          respond(r, [req[r] EXCEPT !.upstream = kind],
                  handlerCatch(evaluateCatch(kind)))
    /\ UNCHANGED <<evaluations, proposalRows, callVars, roundsBelow, otherVars>>

\* axios.post resolves: evaluate, lines 198-211, parses and validates the
\* content; the handler, lines 137-146, calls storeEvaluation, which runs
\* to its first INSERT (lines 117-130).  No answer among Contents brings the
\* score to an inexact tie, where alone the rounding error of the doubles
\* shows, so roundsBelow stays FALSE.
UpstreamReplies(r) ==
    /\ Quiet
    /\ req[r].pc = "upstream"
    /\ \E content \in Contents :
          LET replied == [req[r] EXCEPT !.upstream = "replied",
                                       !.content = content]
              result_ == JSONparse(content)
              evaluation == validateEvaluationResult(result_, roundsBelow)
              validated == [replied EXCEPT !.raw = resultAfter(result_),
                                           !.evaluation = evaluation]
          IN  IF JSONparseThrows(content)
              THEN respond(r, replied,
                           handlerCatch(evaluateCatch("SyntaxError")))
              ELSE IF evaluation.status # "returned"
              THEN respond(r, validated,
                           handlerCatch(evaluateCatch("TypeError")))
              ELSE IF storeEvaluationThrows(evaluation.kpis)
              THEN respond(r, validated, handlerCatch("TypeError"))
              ELSE /\ req' = [req EXCEPT ![r] =
                                 [validated EXCEPT !.pc = "insert"]]
                   /\ UNCHANGED stats
    /\ UNCHANGED <<evaluations, proposalRows, callVars, roundsBelow, otherVars>>

\* storeEvaluation, lines 126-146: the INSERT into evaluations is done, or
\* fails; when done the first INSERT into proposals is issued, when there is
\* none the call returns and the handler, lines 148-155, answers
InsertEvaluation(r) ==
    /\ Quiet
    /\ req[r].pc = "insert"
    /\ \/ /\ respond(r, req[r], handlerCatch("SQLITE_ERROR"))
          /\ UNCHANGED evaluations
       \/ LET row == [id |-> 0, by |-> r,
                      duration |-> req[r].body.duration.n,
                      kpi_scores |-> req[r].evaluation.kpis,
                      word_count |-> splitLength(req[r].body.transcript),
                      overall_score |->
                          storedOverallScore(req[r].evaluation.kpis)]
              counts == proposalCounts(req[r].evaluation.proposals, <<>>)
              stored == [req[r] EXCEPT !.counts = counts,
                                       !.rowId = Len(evaluationsInsert(evaluations, row))]
          IN  /\ evaluations' = evaluationsInsert(evaluations, row)
              /\ IF counts = <<>>
                 THEN respond(r, stored, okResponse(req[r].evaluation))
                 ELSE /\ req' = [req EXCEPT ![r] =
                                    [stored EXCEPT !.pc = "proposals"]]
                      /\ UNCHANGED stats
    /\ UNCHANGED <<proposalRows, callVars, roundsBelow, otherVars>>

\* storeEvaluation, lines 138-146: one INSERT into proposals is done, or
\* fails; after the last one the call returns and the handler answers
InsertProposal(r) ==
    /\ Quiet
    /\ req[r].pc = "proposals"
    /\ \/ /\ respond(r, req[r], handlerCatch("SQLITE_ERROR"))
          /\ UNCHANGED proposalRows
       \/ LET rest == [req[r] EXCEPT !.counts = Tail(@)]
          IN  /\ proposalRows' =
                     Append(proposalRows,
                            [evaluation_id |-> req[r].rowId, by |-> r,
                             type |-> Head(req[r].counts).type,
                             count |-> Head(req[r].counts).count])
              /\ IF rest.counts = <<>>
                 THEN respond(r, rest, okResponse(req[r].evaluation))
                 ELSE /\ req' = [req EXCEPT ![r] = rest]
                      /\ UNCHANGED stats
    /\ UNCHANGED <<evaluations, callVars, roundsBelow, otherVars>>

\* getStatistics, lines 155-157 and 183: totalEvaluations
totalEvaluations(rows) == Len(rows)

\* GET /api/statistics (part_006, lines 165-176), read by one client twice:
\* the answer reports the count of the rows that are there when its first
\* query runs
GetStatistics ==
    /\ Quiet
    /\ stats.second = NoCount
    /\ stats' = IF stats.first = NoCount
                THEN [stats EXCEPT !.first = totalEvaluations(evaluations)]
                ELSE [stats EXCEPT !.second = totalEvaluations(evaluations)]
    /\ UNCHANGED <<req, evaluations, proposalRows, callVars, roundsBelow, otherVars>>

\* part_006, lines 126, 130, 150-155 and 158-161: res.json ends the request
Close(r) ==
    /\ req[r].pc = "responded"
    /\ req' = [req EXCEPT ![r] = ClosedRequest]
    /\ UNCHANGED <<evaluations, proposalRows, stats, callVars, roundsBelow, otherVars>>

\* the file attached to a request in the field audio: its declared type,
\* whether its content is audio, whether it is larger than the limit
File(mimetype, audio, large) ==
    [attached |-> TRUE, mimetype |-> mimetype, audio |-> audio, large |-> large]

NoFile == [attached |-> FALSE, mimetype |-> "", audio |-> FALSE, large |-> FALSE]

\* no request of POST /api/transcribe has been sent
IdleUpload == [pc |-> "idle", file |-> NoFile, response |-> NoResponse]

UploadIdle == transcriptions = [r \in Reqs |-> IdleUpload]

\* the argument of storeEvaluation
StoreData(duration, kpi_scores, proposals, word_count) ==
    [duration |-> duration, kpi_scores |-> kpi_scores,
     proposals |-> proposals, word_count |-> word_count]

\* no call of the DatabaseService has been made
IdleCall ==
    [pc |-> "idle",
     data |-> StoreData(Undefined, NullKpis, ScalarProposals("undefined", 0),
                        Undefined),
     rowId |-> 0, counts |-> <<>>]

\* getStatistics has not been called.  quiet and seen record for the
\* properties whether every query ran after the same finished, successful
\* calls of storeEvaluation and during none.
NoStatistics ==
    [pc |-> "idle", totalEvaluations |-> 0, recentEvaluations |-> {},
     proposalStats |-> <<>>, quiet |-> FALSE, seen |-> {}]

StoreIdle ==
    /\ calls = [c \in Reqs |-> IdleCall]
    /\ clock = 0
    /\ statistics = NoStatistics

\* the durations DurationSelector offers
durations == {45, 60}

\* the RecordingInterface is mounted at most MaxSessions times
MaxSessions == 1

Sessions == 1..MaxSessions

\* what invoked stopRecording: the countdown or the click on STOPP
Triggers == {"timer", "click"}

\* the state of App after useState; 0 stands for null and for ''
IdleApp ==
    [appState |-> "disclaimer", selectedDuration |-> 0,
     evaluationResult |-> 0, transcript |-> 0]

\* what the last commit of RecordingInterface rendered from
Shown(status, isRecording) == [status |-> status, isRecording |-> isRecording]

\* no RecordingInterface is mounted; session counts the ones there were
Unmounted(session) ==
    [session |-> session, mounted |-> FALSE, duration |-> 0,
     status |-> "ready", isRecording |-> FALSE, timeLeft |-> 0,
     timer |-> FALSE, media |-> "pending", shown |-> Shown("ready", FALSE)]

\* the page has been loaded
BrowserIdle ==
    /\ app = IdleApp
    /\ rec = Unmounted(0)
    /\ runs = [s \in Sessions |-> [g \in Triggers |-> "none"]]
    /\ io = [s \in Sessions |->
                [audio |-> FALSE, transcribe |-> 0, evaluate |-> 0]]

OthersIdle == UploadIdle /\ StoreIdle /\ BrowserIdle

\* no call of validateEvaluationResult is followed
NoCall ==
    /\ roundsBelow = FALSE
    /\ result = RawNonObject("undefined")
    /\ pc = "server"
    /\ outcome = NoOutcome
    /\ again = NoOutcome

ServerInit ==
    /\ ServerIdle
    /\ roundsBelow = FALSE
    /\ result = RawNonObject("undefined")
    /\ pc = "server"
    /\ outcome = NoOutcome
    /\ again = NoOutcome
    /\ OthersIdle

ServerNext ==
    \/ \E r \in Reqs : PostEvaluate(r)
    \/ \E r \in Reqs : UpstreamFails(r)
    \/ \E r \in Reqs : UpstreamReplies(r)
    \/ \E r \in Reqs : InsertEvaluation(r)
    \/ \E r \in Reqs : InsertProposal(r)
    \/ \E r \in Reqs : Close(r)
    \/ GetStatistics

ServerSpec == ServerInit /\ [][ServerNext]_vars

\* the server with requests that differ in the text of the transcript only
TranscriptNext ==
    \/ \E r \in Reqs : PostTranscript(r)
    \/ \E r \in Reqs : UpstreamFails(r)
    \/ \E r \in Reqs : UpstreamReplies(r)
    \/ \E r \in Reqs : InsertEvaluation(r)
    \/ \E r \in Reqs : InsertProposal(r)
    \/ \E r \in Reqs : Close(r)

TranscriptSpec == ServerInit /\ [][TranscriptNext]_vars

-----------------------------------------------------------------------------
(* One call of validateEvaluationResult                                    *)

\* the returned object handed to the function as its argument
AsResult(o) ==
    RawObject(ObjectKpis(o.kpis),
              ArrayProposals([i \in 1..Len(o.proposals) |->
                  Proposal(o.proposals[i].type, o.proposals[i].title,
                           o.proposals[i].description, o.proposals[i].priority)]),
              Num(o.overall_score), o.word_count, o.summary)

Init ==
    /\ IsRawInput(result)
    /\ pc = "call"
    /\ outcome = NoOutcome
    /\ roundsBelow = FALSE
    /\ again = NoOutcome
    /\ ServerIdle
    /\ OthersIdle

\* EvaluationService.evaluate, line 203: the function runs to its return or
\* to the line that throws
Validate ==
    /\ pc = "call"
    /\ \E b \in RoundingErrors(result) :
          /\ roundsBelow' = b
          /\ outcome' = validateEvaluationResult(result, b)
    /\ pc' = "done"
    /\ result' = resultAfter(result)
    /\ UNCHANGED <<again, serverVars, otherVars>>

\* the function applied to the object it returned.  It computes the score
\* from the same numbers in the same order as the first call did, so the
\* double arithmetic rounds as it did there.
Revalidate ==
    /\ pc = "done"
    /\ outcome.status = "returned"
    /\ again' = validateEvaluationResult(AsResult(outcome), roundsBelow)
    /\ pc' = "again"
    /\ UNCHANGED <<result, outcome, roundsBelow, serverVars, otherVars>>

Next == Validate \/ Revalidate

Spec == Init /\ [][Next]_vars

-----------------------------------------------------------------------------
(* DatabaseService.storeEvaluation and getStatistics called directly, as   *)
(* the tests do (src/src/services/DatabaseService.js, lines 79-193).  The  *)
(* database runs one statement at a time; the calls interleave at their    *)
(* awaits.                                                                 *)

\* the seconds CURRENT_TIMESTAMP passes through
MaxClock == 1

\* line 172: LIMIT 10
recentLimit == 10

\* { type }, an entry of proposals
TypeOnly(type) == [t |-> "object", type |-> Str(type)]

\* tests/unit/utils.test.js, lines 305-314
OverallScoreData ==
    StoreData(Num(60),
        ObjectKpis([call_to_action |-> Obj([score1 |-> 80, score2 |-> 90]),
                    structure_time |-> Obj([score1 |-> 70, score2 |-> 80])]),
        ArrayProposals(<<>>), Num(120))

\* lines 328-334
StatisticsData ==
    StoreData(Num(45), ObjectKpis([test |-> Obj([score |-> 80])]),
              ArrayProposals(<<TypeOnly("TEST_TYPE")>>), Num(100))

\* the same with three proposals of two types
TwoTypesData ==
    [StatisticsData EXCEPT
        !.proposals = ArrayProposals(<<TypeOnly("TEST_TYPE"),
                                       TypeOnly("TEST_PROPOSAL"),
                                       TypeOnly("TEST_TYPE")>>)]

\* three categories of two, one and three scores
ThreeCategoriesData ==
    StoreData(Num(60),
        ObjectKpis([call_to_action |-> Obj([score1 |-> 80, score2 |-> 90]),
                    structure_time |-> Obj([score |-> 70]),
                    memorability |->
                        Obj([score1 |-> 60, score2 |-> 70, score3 |-> 95])]),
        ArrayProposals(<<>>), Num(120))

\* the data of the tests and of the two above; data without a duration
\* (tests/unit/utils.test.js, lines 409-413); with kpi_scores null
\* (src/unnamed/part_004, lines 134-140); without proposals; and without a
\* category
StoreInputs ==
    {OverallScoreData, StatisticsData, TwoTypesData, ThreeCategoriesData,
     StoreData(Undefined, ObjectKpis(NoProps), ArrayProposals(<<>>), Undefined),
     StoreData(Num(45), NullKpis, ArrayProposals(<<>>), Str("invalid")),
     [StatisticsData EXCEPT !.proposals = ScalarProposals("undefined", 0)],
     StoreData(Num(45), ObjectKpis(NoProps), ArrayProposals(<<>>), Num(100))}

\* the evaluations whose statistics are read
StatisticsInputs == {OverallScoreData, StatisticsData, TwoTypesData}

\* n evaluations stored before, all within one second
Preloaded(n) ==
    [i \in 1..n |->
        [id |-> i, by |-> 0, duration |-> OverallScoreData.duration.n,
         kpi_scores |-> OverallScoreData.kpi_scores.cats,
         word_count |-> OverallScoreData.word_count,
         overall_score |-> storedOverallScore(OverallScoreData.kpi_scores.cats),
         created_at |-> 0]]

\* lines 120-124: Object.values throws for a kpi_scores, or a category of
\* it, that is null or undefined
storeScoreThrows(data) ==
    \/ IsNullish(data.kpi_scores)
    \/ storeEvaluationThrows(data.kpi_scores.cats)

\* lines 44-52: the columns timestamp, duration and kpi_scores are NOT NULL;
\* an undefined parameter is bound as NULL
violatesNotNull(data) == IsNullish(data.duration)

\* lines 134-136: forEach is no function of a value that is no array, and
\* p.type throws for an entry that is null or undefined
storeProposalsThrow(data) ==
    \/ data.proposals.t # "array"
    \/ \E i \in 1..Len(data.proposals.items) :
           IsNullish(data.proposals.items[i])

\* an id taken from the first row of the table
runQueryIdOfFirst(rows) == rows[1].id

\* lines 81-86: this.lastID in the callback of the statement is the id of
\* the row that statement inserted
runQueryId(rows) == rows[Len(rows)].id

\* lines 116-130: the call runs to its first await, or throws
StoreEvaluationOf(c, inputs) ==
    /\ calls[c].pc = "idle"
    /\ \A q \in Reqs : q < c => calls[q].pc # "idle"
    /\ \E data \in inputs :
          calls' = [calls EXCEPT ![c] =
              [@ EXCEPT !.data = data,
                        !.pc = IF storeScoreThrows(data) THEN "rejected"
                               ELSE "insert"]]
    /\ UNCHANGED <<evaluations, proposalRows, clock, statistics>>
    /\ UNCHANGED <<callVars, roundsBelow, req, stats, uploadVars, browserVars>>

StoreEvaluation(c) == StoreEvaluationOf(c, StoreInputs)

StoreForStatistics(c) == StoreEvaluationOf(c, StatisticsInputs)

\* lines 126-146: the INSERT into evaluations fails, and the call rejects
\* (lines 147-150); or it is done, and the call goes on to count the
\* proposals, where it throws, returns, or issues its next INSERT
StoreInsertEvaluation(c) ==
    /\ calls[c].pc = "insert"
    /\ \/ /\ calls' = [calls EXCEPT ![c].pc = "rejected"]
          /\ UNCHANGED evaluations
       \/ /\ ~violatesNotNull(calls[c].data)
          /\ LET data == calls[c].data
                 row == [id |-> 0, by |-> c, duration |-> data.duration.n,
                         kpi_scores |-> data.kpi_scores.cats,
                         word_count |-> data.word_count,
                         overall_score |->
                             storedOverallScore(data.kpi_scores.cats),
                         created_at |-> clock]
                 rows == evaluationsInsert(evaluations, row)
                 counts == IF storeProposalsThrow(data) THEN <<>>
                           ELSE proposalCounts(data.proposals.items, <<>>)
             IN  /\ evaluations' = rows
                 /\ calls' = [calls EXCEPT ![c] =
                        [@ EXCEPT !.rowId = runQueryId(rows),
                                  !.counts = counts,
                                  !.pc = IF storeProposalsThrow(data)
                                         THEN "rejected"
                                         ELSE IF counts = <<>> THEN "returned"
                                         ELSE "proposals"]]
    /\ UNCHANGED <<proposalRows, clock, statistics>>
    /\ UNCHANGED <<callVars, roundsBelow, req, stats, uploadVars, browserVars>>

\* lines 138-146: one INSERT into proposals fails, or is done; after the
\* last one the call returns result.id
StoreInsertProposal(c) ==
    /\ calls[c].pc = "proposals"
    /\ \/ /\ calls' = [calls EXCEPT ![c].pc = "rejected"]
          /\ UNCHANGED proposalRows
       \/ /\ proposalRows' =
                 Append(proposalRows,
                        [evaluation_id |-> calls[c].rowId, by |-> c,
                         type |-> Head(calls[c].counts).type,
                         count |-> Head(calls[c].counts).count])
          /\ calls' = [calls EXCEPT ![c] =
                 [@ EXCEPT !.counts = Tail(@),
                           !.pc = IF Tail(calls[c].counts) = <<>>
                                  THEN "returned" ELSE "proposals"]]
    /\ UNCHANGED <<evaluations, clock, statistics>>
    /\ UNCHANGED <<callVars, roundsBelow, req, stats, uploadVars, browserVars>>

\* a second passes
Tick ==
    /\ clock < MaxClock
    /\ clock' = clock + 1
    /\ UNCHANGED <<calls, statistics, serverVars, uploadVars, browserVars>>
    /\ UNCHANGED <<callVars, roundsBelow>>

\* every call of storeEvaluation made so far has returned
AllReturned == \A c \in Reqs : calls[c].pc \in {"idle", "returned"}

ReturnedCalls == {c \in Reqs : calls[c].pc = "returned"}

\* lines 155-166: the count of the evaluations (the averages of the second
\* query are not followed)
StatisticsCount ==
    /\ statistics.pc = "idle"
    /\ statistics' = [statistics EXCEPT
           !.pc = "recent",
           !.totalEvaluations = totalEvaluations(evaluations),
           !.quiet = AllReturned,
           !.seen = ReturnedCalls]
    /\ UNCHANGED <<calls, clock, serverVars, uploadVars, browserVars>>
    /\ UNCHANGED <<callVars, roundsBelow>>

\* lines 168-173: ORDER BY created_at DESC LIMIT 10.  The order of rows of
\* the same second is left to the database: it is taken to keep them in
\* the order of the table (older) or to reverse it.
recentBefore(older, i, j) ==
    \/ evaluations[i].created_at > evaluations[j].created_at
    \/ /\ evaluations[i].created_at = evaluations[j].created_at
       /\ IF older THEN i < j ELSE i > j

recentAnswers ==
    {{i \in 1..Len(evaluations) :
         Cardinality({j \in 1..Len(evaluations) : recentBefore(older, j, i)})
             < recentLimit} : older \in BOOLEAN}

StatisticsRecent ==
    /\ statistics.pc = "recent"
    /\ \E R \in recentAnswers :
          statistics' = [statistics EXCEPT
              !.pc = "proposals",
              !.recentEvaluations = {evaluations[i].id : i \in R},
              !.quiet = @ /\ AllReturned /\ statistics.seen = ReturnedCalls]
    /\ UNCHANGED <<calls, clock, serverVars, uploadVars, browserVars>>
    /\ UNCHANGED <<callVars, roundsBelow>>

\* SUM(count) of the rows of one type
RECURSIVE totalCount(_, _)
totalCount(type, i) ==
    IF i > Len(proposalRows) THEN 0
    ELSE (IF proposalRows[i].type = type THEN proposalRows[i].count ELSE 0)
         + totalCount(type, i + 1)

\* lines 175-180: GROUP BY type ORDER BY total_count DESC; the order of
\* types of the same total is whatever the database makes it
proposalStatsAnswers ==
    LET types == {proposalRows[i].type : i \in 1..Len(proposalRows)}
        n == Cardinality(types)
    IN  {[i \in 1..n |-> [type |-> order[i],
                          total_count |-> totalCount(order[i], 1)]] :
            order \in {o \in [1..n -> types] :
                          /\ \A i, j \in 1..n : i # j => o[i] # o[j]
                          /\ \A i, j \in 1..n :
                                 i < j => totalCount(o[i], 1)
                                             >= totalCount(o[j], 1)}}

\* lines 175-188
StatisticsProposals ==
    /\ statistics.pc = "proposals"
    /\ \E answer \in proposalStatsAnswers :
          statistics' = [statistics EXCEPT
              !.pc = "done",
              !.proposalStats = answer,
              !.quiet = @ /\ AllReturned /\ statistics.seen = ReturnedCalls]
    /\ UNCHANGED <<calls, clock, serverVars, uploadVars, browserVars>>
    /\ UNCHANGED <<callVars, roundsBelow>>

\* the tables are empty
StoreInit == ServerIdle /\ OthersIdle /\ NoCall

StoreNext ==
    \/ \E c \in Reqs : StoreEvaluation(c)
    \/ \E c \in Reqs : StoreInsertEvaluation(c)
    \/ \E c \in Reqs : StoreInsertProposal(c)

\* calls of storeEvaluation with the data of the tests
StoreSpec == StoreInit /\ [][StoreNext]_vars

\* the database holds no evaluation, or as many as the limit of the recent
\* ones
StatisticsInit ==
    /\ \E n \in {0, recentLimit} : evaluations = Preloaded(n)
    /\ proposalRows = <<>>
    /\ req = [r \in Reqs |-> IdleRequest]
    /\ stats = [first |-> NoCount, second |-> NoCount, oks |-> 0]
    /\ OthersIdle
    /\ NoCall

StatisticsNext ==
    \/ \E c \in Reqs : StoreForStatistics(c)
    \/ \E c \in Reqs : StoreInsertEvaluation(c)
    \/ \E c \in Reqs : StoreInsertProposal(c)
    \/ Tick
    \/ StatisticsCount
    \/ StatisticsRecent
    \/ StatisticsProposals

\* calls of storeEvaluation that succeed unless an INSERT fails, and one
\* call of getStatistics
StatisticsSpec == StatisticsInit /\ [][StatisticsNext]_vars

-----------------------------------------------------------------------------
(* POST /api/transcribe: src/unnamed/part_006, lines 56-71, 92-119 and     *)
(* 209-219, and TranscriptionService.transcribe                            *)
(* (src/src/services/TranscriptionService.js, lines 21-77)                 *)

\* the requests: without a file; with the text file of
\* src/unnamed/part_003, lines 174-181; with the recording of the browser
\* (SpeechService.js, line 201); with a file declared as audio/wav whose
\* content is no audio; with a recording above the size limit; with audio
\* of a type that is not allowed
Files ==
    {NoFile, File("text/plain", FALSE, FALSE), File("audio/webm", TRUE, FALSE),
     File("audio/wav", FALSE, FALSE), File("audio/webm", TRUE, TRUE),
     File("audio/ogg", TRUE, FALSE)}

\* part_006, line 64
allowedTypes == {"audio/webm", "audio/wav", "audio/mp3", "audio/m4a"}

\* part_006, lines 63-70: the error fileFilter hands to its callback, or
\* "" when it accepts the file
fileFilter(file) ==
    IF file.mimetype \in allowedTypes THEN ""
    ELSE "Invalid file type. Only audio files allowed."

\* upload.single('audio') with the configuration of lines 58-71: without a
\* file the handler is called and req.file is undefined; a file the filter
\* rejects, and a file above limits.fileSize, end in next(error), the filter
\* being asked before the content is read
uploadSingle(file) ==
    CASE ~file.attached -> "undefined"
      [] fileFilter(file) # "" -> "Error"
      [] file.large -> "LIMIT_FILE_SIZE"
      [] OTHER -> "file"

\* part_006, lines 210-219
errorMiddleware(error) ==
    IF error = "LIMIT_FILE_SIZE"
    THEN [status |-> 413, error |-> Str("File too large"),
          message |-> Undefined, body |-> NoProps]
    ELSE [status |-> 500, error |-> Str("Internal server error"),
          message |-> Undefined, body |-> NoProps]

\* transcribe, lines 65-75: the message of the Error thrown
transcribeCatch(kind) ==
    CASE kind = "response" -> "Mistral API error"
      [] kind = "ECONNABORTED" ->
             "Transcription timeout - audio file may be too large"
      [] OTHER -> "Network error"

\* part_006, lines 112-117
transcribeHandlerCatch(message) ==
    [status |-> 500, error |-> Str("Transcription failed"),
     message |-> Str(message), body |-> NoProps]

\* part_006, lines 92-101 and 210-219: the upload middleware and then the
\* handler to its await, or the error middleware
PostTranscribe(r) ==
    /\ transcriptions[r].pc = "idle"
    /\ \A q \in Reqs : q < r => transcriptions[q].pc # "idle"
    /\ \E file \in Files :
          transcriptions' = [transcriptions EXCEPT ![r] =
              CASE uploadSingle(file) = "undefined" ->
                       [pc |-> "responded", file |-> file,
                        response |-> badRequest("No audio file provided")]
                [] uploadSingle(file) = "file" ->
                       [pc |-> "upstream", file |-> file,
                        response |-> NoResponse]
                [] uploadSingle(file) = "Error" ->
                       [pc |-> "responded", file |-> file,
                        response |-> errorMiddleware(fileFilter(file))]
                [] OTHER ->
                       [pc |-> "responded", file |-> file,
                        response |-> errorMiddleware(uploadSingle(file))]]
    /\ UNCHANGED <<callVars, roundsBelow, serverVars, storeVars, browserVars>>

\* axios.post rejects: transcribe, lines 61-75, throws and the handler,
\* lines 112-117, answers
TranscribeFails(r) ==
    /\ transcriptions[r].pc = "upstream"
    /\ \E kind \in UpstreamFailures :
          transcriptions' = [transcriptions EXCEPT ![r] =
              [@ EXCEPT !.pc = "responded",
                        !.response = transcribeHandlerCatch(transcribeCatch(kind))]]
    /\ UNCHANGED <<callVars, roundsBelow, serverVars, storeVars, browserVars>>

\* axios.post resolves: transcribe, lines 51-62, returns and the handler,
\* lines 102-111, answers.  The provider is taken to answer with a text for
\* audio only.
TranscribeReplies(r) ==
    /\ transcriptions[r].pc = "upstream"
    /\ transcriptions[r].file.audio
    /\ transcriptions' = [transcriptions EXCEPT ![r] =
           [@ EXCEPT !.pc = "responded",
                     !.response =
                         [status |-> 200, error |-> Undefined,
                          message |-> Undefined,
                          body |-> [transcript |-> Str("Test"),
                                    language |-> Str("de"),
                                    duration |-> "duration",
                                    confidence |-> "confidence"]]]]
    /\ UNCHANGED <<callVars, roundsBelow, serverVars, storeVars, browserVars>>

UploadInit == ServerIdle /\ OthersIdle /\ NoCall

UploadNext ==
    \/ \E r \in Reqs : PostTranscribe(r)
    \/ \E r \in Reqs : TranscribeFails(r)
    \/ \E r \in Reqs : TranscribeReplies(r)

UploadSpec == UploadInit /\ [][UploadNext]_vars

-----------------------------------------------------------------------------
(* The browser: App (src/src/App.jsx) and the RecordingInterface it mounts *)
(* while appState is 'recording' (src/unnamed/part_000), with the          *)
(* SpeechService of the instance (src/src/services/SpeechService.js).      *)
(* A step is one task of the page: a click, a tick of the interval, a      *)
(* timeout, the settling of a promise, or a commit of React.  State set in *)
(* a click handler is committed before the next task; state set in a timer *)
(* or after an await is committed by a later task, Render, and until then  *)
(* the page shows, and a click reaches, what the commit before rendered.   *)
(* The state of App is taken as committed at once: no view of App offers a *)
(* click while RecordingInterface has work pending in the same task.       *)
(* runs[s][g] is the position of the stopRecording of recording s invoked  *)
(* by g and of the processRecording it schedules; they go on after the     *)
(* instance is unmounted, its setters then without effect.  io[s] is       *)
(* whether the recorder of s has delivered audio, and the requests s sent. *)
(* The onstop event of a stopped recorder is taken to arrive within the    *)
(* 500 ms that processRecording waits.                                     *)

\* the state of a RecordingInterface after its first render
Mounted(session, duration) ==
    [session |-> session, mounted |-> TRUE, duration |-> duration,
     status |-> "ready", isRecording |-> FALSE, timeLeft |-> duration,
     timer |-> FALSE, media |-> "pending", shown |-> Shown("ready", FALSE)]

\* React commits the state of the instance
committed(r) == [r EXCEPT !.shown = Shown(r.status, r.isRecording)]

\* setError(...); setStatus('error') of instance s: nothing when the
\* instance is not the mounted one
showError(r, s) ==
    IF r.mounted /\ r.session = s THEN [r EXCEPT !.status = "error"] ELSE r

\* the views
RecordingView == app.appState = "recording"

ResultsView == app.appState = "results"

ErrorView == RecordingView /\ rec.shown.status = "error"

StartButton ==
    /\ RecordingView
    /\ rec.shown.status \notin {"error", "processing"}
    /\ ~rec.shown.isRecording
    /\ rec.shown.status = "ready"

StopButton ==
    /\ RecordingView
    /\ rec.shown.status \notin {"error", "processing"}
    /\ rec.shown.isRecording

\* the variables of the other parts of the program
serverSide == <<callVars, roundsBelow, serverVars, uploadVars, storeVars>>

DisclaimerAccept ==
    /\ app.appState = "disclaimer"
    /\ app' = [app EXCEPT !.appState = "duration_select"]
    /\ UNCHANGED <<rec, runs, io, serverSide>>

\* a click in DurationSelector; the instance mounts and its effect starts
\* initializeSpeechService
DurationSelect(d) ==
    /\ app.appState = "duration_select"
    /\ rec.session < MaxSessions
    /\ app' = [app EXCEPT !.selectedDuration = d, !.appState = "recording"]
    /\ rec' = Mounted(rec.session + 1, d)
    /\ UNCHANGED <<runs, io, serverSide>>

\* speechService.initialize() settles
InitializeSpeechService(success) ==
    /\ rec.mounted
    /\ rec.media = "pending"
    /\ rec' = IF success
              THEN [rec EXCEPT !.media = "inactive"]
              ELSE [rec EXCEPT !.media = "failed", !.status = "error"]
    /\ UNCHANGED <<app, runs, io, serverSide>>

\* the click on START; speechService.startRecording() settles in the
\* same task, and the interval is set when it has resolved
StartRecording(resolved) ==
    /\ StartButton
    /\ rec' = committed(
         IF resolved
         THEN [rec EXCEPT !.status = "recording", !.isRecording = TRUE,
                          !.timeLeft = rec.duration, !.timer = TRUE,
                          !.media = IF @ = "inactive" THEN "recording" ELSE @]
         ELSE [rec EXCEPT !.status = "error", !.isRecording = FALSE,
                          !.timeLeft = rec.duration])
    /\ UNCHANGED <<app, runs, io, serverSide>>

\* the recorder reports an error: it stops, and onError shows the error
RecorderError ==
    /\ rec.mounted
    /\ rec.media = "recording"
    /\ rec' = [rec EXCEPT !.media = "inactive", !.status = "error"]
    /\ io' = [io EXCEPT ![rec.session].audio = TRUE]
    /\ UNCHANGED <<app, runs, serverSide>>

timerStopsAtZero(prev) == prev <= 0

\* the updater of the interval invokes stopRecording
timerStops(prev) == prev <= 1

\* the updater of the interval
countdown(prev) == IF timerStops(prev) THEN 0 ELSE prev - 1

\* stopRecording up to its await: the recorder, when recording, stops and
\* delivers its audio
stopped(r) ==
    [r EXCEPT !.isRecording = FALSE, !.timer = FALSE,
              !.media = IF @ = "recording" THEN "inactive" ELSE @]

stopRecording(g) ==
    /\ runs' = [runs EXCEPT ![rec.session][g] = "stopping"]
    /\ io' = [io EXCEPT ![rec.session].audio = @ \/ rec.media = "recording"]

\* a tick of the interval
TimerTick ==
    /\ rec.mounted
    /\ rec.timer
    /\ IF timerStops(rec.timeLeft)
       THEN /\ rec' = [stopped(rec) EXCEPT !.timeLeft = countdown(@)]
            /\ stopRecording("timer")
       ELSE /\ rec' = [rec EXCEPT !.timeLeft = countdown(@)]
            /\ UNCHANGED <<runs, io>>
    /\ UNCHANGED <<app, serverSide>>

\* the click on STOPP
ClickStop ==
    /\ StopButton
    /\ rec' = committed(stopped(rec))
    /\ stopRecording("click")
    /\ UNCHANGED <<app, serverSide>>

\* React commits state that was set outside a click
Render ==
    /\ rec.mounted
    /\ rec.shown # Shown(rec.status, rec.isRecording)
    /\ rec' = committed(rec)
    /\ UNCHANGED <<app, runs, io, serverSide>>

\* speechService.stopRecording() resolves
StopResolves(s, g) ==
    /\ runs[s][g] = "stopping"
    /\ runs' = [runs EXCEPT ![s][g] = "timeout"]
    /\ rec' = IF rec.mounted /\ rec.session = s
              THEN [rec EXCEPT !.status = "processing"]
              ELSE rec
    /\ UNCHANGED <<app, io, serverSide>>

\* the timeout of stopRecording: processRecording up to its first await
ProcessRecording(s, g) ==
    /\ runs[s][g] = "timeout"
    /\ IF io[s].audio
       THEN /\ runs' = [runs EXCEPT ![s][g] = "transcribing"]
            /\ io' = [io EXCEPT ![s].transcribe = @ + 1]
            /\ UNCHANGED rec
       ELSE /\ runs' = [runs EXCEPT ![s][g] = "none"]
            /\ rec' = showError(rec, s)
            /\ UNCHANGED io
    /\ UNCHANGED <<app, serverSide>>

\* what transcribeAudio gives: a rejection, no text at all, or a text
Transcriptions == {"rejected", "empty", "text"}

\* transcribeAudio settles: with a text, onRecordingComplete and the
\* request of the evaluation
TranscribeReturns(s, g, transcription) ==
    /\ runs[s][g] = "transcribing"
    /\ IF transcription = "text"
       THEN /\ runs' = [runs EXCEPT ![s][g] = "evaluating"]
            /\ app' = [app EXCEPT !.transcript = s, !.appState = "processing"]
            /\ rec' = Unmounted(rec.session)
            /\ io' = [io EXCEPT ![s].evaluate = @ + 1]
       ELSE /\ runs' = [runs EXCEPT ![s][g] = "none"]
            /\ rec' = showError(rec, s)
            /\ UNCHANGED <<app, io>>
    /\ UNCHANGED serverSide

\* the fetch of /api/evaluate settles: onEvaluationComplete when the
\* response is ok
EvaluateReturns(s, g, ok) ==
    /\ runs[s][g] = "evaluating"
    /\ runs' = [runs EXCEPT ![s][g] = "none"]
    /\ IF ok
       THEN /\ app' = [app EXCEPT !.evaluationResult = s,
                                  !.appState = "results"]
            /\ rec' = Unmounted(rec.session)
       ELSE /\ rec' = showError(rec, s)
            /\ UNCHANGED app
    /\ UNCHANGED <<io, serverSide>>

\* the click on the button of ResultsDisplay
StartOver ==
    /\ ResultsView
    /\ app' = [app EXCEPT !.appState = "duration_select",
                          !.selectedDuration = 0, !.evaluationResult = 0,
                          !.transcript = 0]
    /\ UNCHANGED <<rec, runs, io, serverSide>>

\* the click on 'Seite neu laden': the page and its pending work are gone
Reload ==
    /\ ErrorView
    /\ app' = IdleApp
    /\ rec' = Unmounted(rec.session)
    /\ runs' = [s \in Sessions |-> [g \in Triggers |-> "none"]]
    /\ UNCHANGED <<io, serverSide>>

BrowserInit == ServerIdle /\ OthersIdle /\ NoCall

\* the tasks the user starts
UserNext ==
    \/ DisclaimerAccept
    \/ \E d \in durations : DurationSelect(d)
    \/ \E resolved \in BOOLEAN : StartRecording(resolved)
    \/ ClickStop
    \/ StartOver
    \/ Reload

\* the tasks the page runs by itself
PageNext ==
    \/ \E success \in BOOLEAN : InitializeSpeechService(success)
    \/ RecorderError
    \/ TimerTick
    \/ Render
    \/ \E s \in Sessions, g \in Triggers : StopResolves(s, g)
    \/ \E s \in Sessions, g \in Triggers : ProcessRecording(s, g)
    \/ \E s \in Sessions, g \in Triggers, transcription \in Transcriptions :
           TranscribeReturns(s, g, transcription)
    \/ \E s \in Sessions, g \in Triggers, ok \in BOOLEAN :
           EvaluateReturns(s, g, ok)

BrowserNext == UserNext \/ PageNext

BrowserSpec == BrowserInit /\ [][BrowserNext]_vars

\* The page's own tasks are not held back: a commit that is due is made,
\* the interval ticks while it is set, timeouts fire and promises settle
\* (a fetch ends with a response or with a rejection).  Nothing makes the
\* user click, and nothing makes the recorder fail.
BrowserFairness ==
    /\ WF_vars(Render)
    /\ WF_vars(TimerTick)
    /\ WF_vars(\E success \in BOOLEAN : InitializeSpeechService(success))
    /\ \A s \in Sessions, g \in Triggers :
          /\ WF_vars(StopResolves(s, g))
          /\ WF_vars(ProcessRecording(s, g))
          /\ WF_vars(\E transcription \in Transcriptions :
                         TranscribeReturns(s, g, transcription))
          /\ WF_vars(\E ok \in BOOLEAN : EvaluateReturns(s, g, ok))

BrowserLiveSpec == BrowserSpec /\ BrowserFairness

-----------------------------------------------------------------------------
(* Vocabulary of the properties                                            *)

Returned == pc = "done" /\ outcome.status = "returned"

Threw == pc = "done" /\ outcome.status = "TypeError"

\* the category keys result.kpis supplies
SuppliedCats == IF result.kpis.t = "object" THEN DOMAIN result.kpis.cats ELSE {}

Supplied(c) == c \in SuppliedCats

SuppliedRubricCats == SuppliedCats \cap DOMAIN rubric

\* every category result.kpis supplies is an object
SuppliedAreObjects == \A c \in SuppliedCats : result.kpis.cats[c].t = "object"

\* the sum and the number of the entries of each category in S of a kpis
Entries(kpis, S) ==
    [c \in S |-> [sum |-> SumOver(kpis[c].ent, DOMAIN kpis[c].ent),
                  len |-> Cardinality(DOMAIN kpis[c].ent)]]

\* the weights of the rubric in hundredths: 0.40, 0.25, 0.20, 0.15
SpecWeight ==
    [call_to_action |-> 40, structure_time |-> 25, content_clarity |-> 20,
     memorability |-> 15]

RECURSIVE ProdLen(_, _)
ProdLen(m, S) ==
    IF S = {} THEN 1
    ELSE LET c == CHOOSE x \in S : TRUE
         IN  m[c].len * ProdLen(m, S \ {c})

RECURSIVE WeightedNum(_, _)
WeightedNum(m, S) ==
    IF S = {} THEN 0
    ELSE LET c == CHOOSE x \in S : TRUE
         IN  m[c].sum * SpecWeight[c] * ProdLen(m, (DOMAIN m) \ {c})
               + WeightedNum(m, S \ {c})

\* ten times the weighted sum of the means of m is TenthsNum(m) / TenthsDen(m)
TenthsNum(m) == WeightedNum(m, DOMAIN m)

TenthsDen(m) == 10 * ProdLen(m, DOMAIN m)

NoEmpty(m) == \A c \in DOMAIN m : m[c].len > 0

\* x is a number with one decimal
IsTenth(x) == ~x.nan /\ (x.num * 10) % x.den = 0

Tenths(x) == (x.num * 10) \div x.den

\* x is the weighted sum of the means of m rounded to a nearest tenth
NearestTenth(x, m) ==
    /\ IsTenth(x)
    /\ 2 * Abs(Tenths(x) * TenthsDen(m) - TenthsNum(m)) <= TenthsDen(m)

\* x is that sum rounded to the nearest tenth, a tie going toward +Infinity
HalfUpTenth(x, m) ==
    /\ IsTenth(x)
    /\ 2 * TenthsDen(m) * Tenths(x) <= 2 * TenthsNum(m) + TenthsDen(m)
    /\ 2 * TenthsNum(m) + TenthsDen(m) < 2 * TenthsDen(m) * (Tenths(x) + 1)

\* x is that sum rounded to the nearest tenth, a tie going away from zero
HalfAwayTenth(x, m) ==
    /\ IsTenth(x)
    /\ IF TenthsNum(m) >= 0 THEN HalfUpTenth(x, m)
       ELSE /\ 2 * TenthsDen(m) * (-Tenths(x)) <= TenthsDen(m) - 2 * TenthsNum(m)
            /\ TenthsDen(m) - 2 * TenthsNum(m) < 2 * TenthsDen(m) * (1 - Tenths(x))

-----------------------------------------------------------------------------
(* C1                                                                      *)

\* some supplied category holds some, and not all, of its rubric sub-criteria
SomePartialCategory ==
    \E c \in SuppliedRubricCats :
        /\ result.kpis.cats[c].t = "object"
        /\ (DOMAIN result.kpis.cats[c].ent) \cap rubric[c] # {}
        /\ ~(rubric[c] \subseteq DOMAIN result.kpis.cats[c].ent)

-----------------------------------------------------------------------------
(* C2                                                                      *)

-----------------------------------------------------------------------------
(* C3                                                                      *)

\* every sub-criterion value the argument supplies lies in 0..100
SuppliedInRange ==
    \A c \in SuppliedCats :
        \A nm \in DOMAIN result.kpis.cats[c].ent :
            result.kpis.cats[c].ent[nm] \in 0..100

ScoreInRange(x) == ~x.nan /\ 0 <= x.num /\ x.num <= 100 * x.den

-----------------------------------------------------------------------------
(* C4                                                                      *)

\* C4 as stated, read as weakly as it can be: called with null or with a
\* primitive, the function raises an error and returns no evaluation.
C4_NonObjectRejected ==
    (pc = "done" /\ result.t \in NonObjectTypes) => outcome.status # "returned"

-----------------------------------------------------------------------------
(* C5                                                                      *)

\* the argument is a value JSON.parse can produce (line 200): no category is
\* a property holding undefined
ParsedFromJson == \A c \in SuppliedCats : result.kpis.cats[c].t # "undefined"

\* C5 as stated, on the arguments JSON.parse can produce: for every object
\* argument, whatever nested field is absent or malformed, the function
\* returns an evaluation and raises nothing.
C5_TotalOnObjects ==
    (pc = "done" /\ result.t = "object" /\ ParsedFromJson) =>
        outcome.status = "returned"

-----------------------------------------------------------------------------
(* C6                                                                      *)

\* C6: a category absent from the argument's kpis is returned with exactly
\* the rubric's sub-criteria, all 0; every category the argument supplies is
\* still a key of the returned kpis; and the absent categories add nothing to
\* overall_score, which is the rounded weighted sum over the supplied
\* categories alone.
C6_AbsentCategoryAllZero ==
    Returned =>
        /\ \A c \in (DOMAIN rubric) \ SuppliedCats :
              /\ c \in DOMAIN outcome.kpis
              /\ outcome.kpis[c].t = "object"
              /\ DOMAIN outcome.kpis[c].ent = rubric[c]
              /\ \A nm \in rubric[c] : outcome.kpis[c].ent[nm] = 0
        /\ \A c \in SuppliedCats : c \in DOMAIN outcome.kpis
        /\ LET m == Entries(outcome.kpis, SuppliedRubricCats \cap DOMAIN outcome.kpis)
           IN  NoEmpty(m) => NearestTenth(outcome.overall_score, m)

\* a returned call whose argument supplies one category with a positive
\* score and leaves the three others out
C6_Witness ==
    /\ Returned
    /\ Cardinality(SuppliedRubricCats) = 1
    /\ ~outcome.overall_score.nan
    /\ outcome.overall_score.num > 0

-----------------------------------------------------------------------------
(* C7                                                                      *)

\* C7: every entry (category, sub-criterion, value) of the argument's kpis,
\* of the rubric or not, is an entry of the returned kpis with that value.
C7_SuppliedValuesKept ==
    Returned =>
        \A c \in SuppliedCats :
            /\ c \in DOMAIN outcome.kpis
            /\ \A nm \in DOMAIN result.kpis.cats[c].ent :
                  /\ nm \in DOMAIN outcome.kpis[c].ent
                  /\ outcome.kpis[c].ent[nm] = result.kpis.cats[c].ent[nm]

\* a returned call whose argument supplies a rubric category holding a rubric
\* sub-criterion and an unknown one, with values other than the default 0
C7_Witness ==
    /\ Returned
    /\ \E c \in SuppliedRubricCats :
          /\ result.kpis.cats[c].t = "object"
          /\ \E nm \in (DOMAIN result.kpis.cats[c].ent) \cap rubric[c] :
                result.kpis.cats[c].ent[nm] # 0
          /\ \E nm \in (DOMAIN result.kpis.cats[c].ent) \ rubric[c] :
                result.kpis.cats[c].ent[nm] # 0

-----------------------------------------------------------------------------
(* C8                                                                      *)

\* the entries of category c of the merged object as C8 describes it: the
\* supplied values, and a 0 for each rubric sub-criterion the caller omitted
DeepMergedEntries ==
    [c \in DOMAIN rubric |->
        IF Supplied(c)
        THEN [sum |-> SumOver(result.kpis.cats[c].ent, DOMAIN result.kpis.cats[c].ent),
              len |-> Cardinality((DOMAIN result.kpis.cats[c].ent) \cup rubric[c])]
        ELSE [sum |-> 0, len |-> Cardinality(rubric[c])]]

\* the entries of category c as the caller supplied them, and the zeros of
\* the rubric for a category the caller did not supply
SuppliedEntries ==
    [c \in DOMAIN rubric |->
        IF Supplied(c)
        THEN [sum |-> SumOver(result.kpis.cats[c].ent, DOMAIN result.kpis.cats[c].ent),
              len |-> Cardinality(DOMAIN result.kpis.cats[c].ent)]
        ELSE [sum |-> 0, len |-> Cardinality(rubric[c])]]

\* C8 as stated: the score of a category is the mean over the supplied
\* values, a 0 for each rubric sub-criterion the caller omitted, and the
\* extra sub-criteria supplied.
C8_MeanCountsOmittedAsZero ==
    (Returned /\ SuppliedAreObjects) =>
        NearestTenth(outcome.overall_score, DeepMergedEntries)

\* C8 as amended: the score of a supplied category is the mean over exactly
\* the entries the caller supplied, of the rubric or not, no 0 standing in
\* for a rubric sub-criterion the caller omitted (NaN when it supplied none);
\* the score of a category that is not supplied is the mean of the rubric's
\* zeros.
C8_MeanOverSuppliedEntries ==
    (Returned /\ SuppliedAreObjects) =>
        IF NoEmpty(SuppliedEntries)
        THEN NearestTenth(outcome.overall_score, SuppliedEntries)
        ELSE outcome.overall_score.nan

\* a returned call scored from a category that holds a rubric sub-criterion
\* and an extra one and omits other rubric sub-criteria
C8_Witness ==
    /\ Returned
    /\ SomePartialCategory
    /\ \E c \in SuppliedRubricCats : (DOMAIN result.kpis.cats[c].ent) \ rubric[c] # {}
    /\ ~outcome.overall_score.nan
    /\ outcome.overall_score.num > 0

-----------------------------------------------------------------------------
(* C9                                                                      *)

\* the four categories are supplied, each with names of the caller's only
CallerNamesOnly ==
    /\ SuppliedAreObjects
    /\ SuppliedRubricCats = DOMAIN rubric
    /\ \A c \in DOMAIN rubric :
          /\ DOMAIN result.kpis.cats[c].ent # {}
          /\ (DOMAIN result.kpis.cats[c].ent) \cap rubric[c] = {}

\* C9: when each of the four categories is supplied with names of the
\* caller's only, overall_score is the weighted sum of the means of exactly
\* the supplied values, rounded to one decimal: 80/90/70/60 gives 77.5 and
\* pairs averaging 85/80/75/70 give 79.5.
C9_CallerNamedScores ==
    (pc = "done" /\ CallerNamesOnly) =>
        /\ outcome.status = "returned"
        /\ NearestTenth(outcome.overall_score,
                        Entries(result.kpis.cats, DOMAIN rubric))
        /\ result = SingleScoreResult => outcome.overall_score = Q(775, 10)
        /\ result = PairScoreResult => outcome.overall_score = Q(795, 10)

\* the pairs of the test have been scored 79.5
C9_Witness ==
    /\ Returned
    /\ result = PairScoreResult
    /\ CallerNamesOnly
    /\ Tenths(outcome.overall_score) = 795

-----------------------------------------------------------------------------
(* C10                                                                     *)

\* the argument whose weighted sum is -0.25: structure_time averages -1
QuarterBelowZero == KpisOnly([structure_time |-> Obj([score |-> -1])])

\* only the category weighted 0.25 scores other than 0, and its mean is a
\* binary fraction: the double arithmetic computes the weighted sum exactly
ComputedExactly(m) ==
    \A c \in DOMAIN m :
        m[c].sum = 0 \/ (c = "structure_time" /\ m[c].len \in {1, 2, 4})

\* C10 as stated, on the weighted sums the double arithmetic computes
\* exactly: overall_score is the weighted sum rounded to one decimal, a tie
\* going away from zero, also for negative and above-100 scores, so that
\* -0.25 gives -0.3.
C10_TiesAwayFromZero ==
    Returned =>
        LET m == Entries(outcome.kpis, DOMAIN rubric) IN
        /\ (NoEmpty(m) /\ ComputedExactly(m)) => HalfAwayTenth(outcome.overall_score, m)
        /\ result = QuarterBelowZero => outcome.overall_score = Q(-3, 10)

\* C10 as amended: overall_score is the weighted sum rounded to a nearest
\* tenth by Math.round(x * 10) / 10, also for negative and above-100 scores,
\* which are not clamped, and a tie is not sent away from zero: where the
\* double arithmetic computes the weighted sum exactly, a tie goes toward
\* +Infinity, so -0.25 gives -0.2; 81.825 gives 81.8 and a rubric scored 101
\* throughout gives 101.
C10_TiesTowardPlusInfinity ==
    Returned =>
        LET m == Entries(outcome.kpis, DOMAIN rubric) IN
        /\ NoEmpty(m) => NearestTenth(outcome.overall_score, m)
        /\ (NoEmpty(m) /\ ComputedExactly(m)) => HalfUpTenth(outcome.overall_score, m)
        /\ result = QuarterBelowZero => outcome.overall_score = Q(-2, 10)
        /\ result = CompleteResult => outcome.overall_score = Q(818, 10)
        /\ result = UniformResult(101) => outcome.overall_score = Q(101, 1)

\* the weighted sum -0.25, a tie below zero, has been rounded
C10_Witness ==
    /\ Returned
    /\ result = QuarterBelowZero
    /\ TenthsNum(Entries(outcome.kpis, DOMAIN rubric)) * 2
          = -5 * TenthsDen(Entries(outcome.kpis, DOMAIN rubric))
    /\ ~outcome.overall_score.nan

-----------------------------------------------------------------------------
(* C11: the function applied to its own result                             *)

\* the four categories of the rubric and no other, each an object holding
\* the rubric's sub-criteria and no other
StructurallyNormalized(kpis) ==
    /\ DOMAIN kpis = DOMAIN rubric
    /\ \A c \in DOMAIN rubric :
          kpis[c].t = "object" /\ DOMAIN kpis[c].ent = rubric[c]

\* C11: for every argument on which the function returns an object whose
\* kpis are structurally normalized (the rubric's categories and
\* sub-criteria, no extra ones), the function applied to that object returns
\* too, with the same overall_score, the same kpis and the same proposals.
C11_IdempotentOnNormalized ==
    (pc = "again" /\ StructurallyNormalized(outcome.kpis)) =>
        /\ again.status = "returned"
        /\ again.overall_score = outcome.overall_score
        /\ again.kpis = outcome.kpis
        /\ again.proposals = outcome.proposals

\* the complete result of the tests, with its one proposal, scores 81.8
\* both times
C11_Witness ==
    /\ pc = "again"
    /\ result = CompleteResult
    /\ StructurallyNormalized(outcome.kpis)
    /\ Len(outcome.proposals) = 1
    /\ again.overall_score = Q(818, 10)

-----------------------------------------------------------------------------
(* C12: at most the first three proposals                                  *)

\* the entries of result.proposals: none unless it is an array
SuppliedProposals ==
    IF result.proposals.t = "array" THEN result.proposals.items ELSE <<>>

\* C12: whenever the function returns, the returned proposals are the
\* first min(3, n) entries of result.proposals (n its length), normalized
\* entry by entry and in the original order; they are none when
\* result.proposals is absent, and never more than three.
C12_FirstThreeInOrder ==
    Returned =>
        /\ Len(outcome.proposals) = Min(3, Len(SuppliedProposals))
        /\ Len(outcome.proposals) <= 3
        /\ \A i \in 1..Len(outcome.proposals) :
              outcome.proposals[i] = mapProposal(SuppliedProposals[i])
        /\ (result.proposals.t = "undefined" => outcome.proposals = <<>>)

\* four different entries supplied, the first three returned
C12_Witness ==
    /\ Returned
    /\ Len(SuppliedProposals) = 4
    /\ Len(outcome.proposals) = 3
    /\ SuppliedProposals[1].type # SuppliedProposals[2].type
    /\ SuppliedProposals[2].priority # SuppliedProposals[3].priority
    /\ SuppliedProposals[4].priority = Str("LOW")
    /\ \A i \in 1..3 : outcome.proposals[i].priority # Str("LOW")

-----------------------------------------------------------------------------
(* C13: the priority of a returned proposal                                *)

Priorities == {Str("HIGH"), Str("MEDIUM"), Str("LOW")}

\* C13: whenever the function returns, every returned proposal has a
\* priority among HIGH, MEDIUM and LOW: the entry's priority when that is
\* one of the three strings exactly, and MEDIUM in every other case (a
\* missing priority, other letter case, another string, a non-string).
C13_PriorityKeptOrMedium ==
    Returned =>
        \A i \in 1..Len(outcome.proposals) :
            /\ outcome.proposals[i].priority \in Priorities
            /\ outcome.proposals[i].priority =
                  IF SuppliedProposals[i].priority \in Priorities
                  THEN SuppliedProposals[i].priority
                  ELSE Str("MEDIUM")

\* LOW kept; "high", a number and a missing priority replaced by MEDIUM
C13_Witness ==
    /\ Returned
    /\ Len(outcome.proposals) = 3
    /\ SuppliedProposals[1].priority = Str("LOW")
    /\ outcome.proposals[1].priority = Str("LOW")
    /\ SuppliedProposals[2].priority = Str("high")
    /\ outcome.proposals[2].priority = Str("MEDIUM")
    /\ SuppliedProposals[3].priority = Num(1)
    /\ outcome.proposals[3].priority = Str("MEDIUM")

-----------------------------------------------------------------------------
(* C14: the fields of a returned proposal                                  *)

ProposalFields == {"type", "title", "description", "priority"}

\* the property is present in the parsed JSON: it is there and not null
Present(v) == v.t \notin {"undefined", "null"}

\* C14 as stated: every returned proposal has the four fields and no other,
\* and type, title and description are the entry's values when these are
\* present and the defaults otherwise.
\* Violated: a title that is the empty string is present and is replaced by
\* 'Verbesserung'.
C14_PresentFieldsKept ==
    Returned =>
        \A i \in 1..Len(outcome.proposals) :
            /\ DOMAIN outcome.proposals[i] = ProposalFields
            /\ outcome.proposals[i].type =
                  IF Present(SuppliedProposals[i].type)
                  THEN SuppliedProposals[i].type ELSE Str("GENERAL_IMPROVEMENT")
            /\ outcome.proposals[i].title =
                  IF Present(SuppliedProposals[i].title)
                  THEN SuppliedProposals[i].title ELSE Str("Verbesserung")
            /\ outcome.proposals[i].description =
                  IF Present(SuppliedProposals[i].description)
                  THEN SuppliedProposals[i].description
                  ELSE Str("Siehe Bewertungsdetails")

\* C14 (amended): every returned proposal has the four fields type, title,
\* description and priority and no other; type, title and description are
\* the entry's values when these are truthy (of whatever type), and the
\* defaults GENERAL_IMPROVEMENT, Verbesserung and Siehe Bewertungsdetails
\* when they are missing or falsy (null, the empty string, 0).
C14_TruthyFieldsKept ==
    Returned =>
        \A i \in 1..Len(outcome.proposals) :
            /\ DOMAIN outcome.proposals[i] = ProposalFields
            /\ outcome.proposals[i].type =
                  IF Truthy(SuppliedProposals[i].type)
                  THEN SuppliedProposals[i].type ELSE Str("GENERAL_IMPROVEMENT")
            /\ outcome.proposals[i].title =
                  IF Truthy(SuppliedProposals[i].title)
                  THEN SuppliedProposals[i].title ELSE Str("Verbesserung")
            /\ outcome.proposals[i].description =
                  IF Truthy(SuppliedProposals[i].description)
                  THEN SuppliedProposals[i].description
                  ELSE Str("Siehe Bewertungsdetails")

\* an entry with a fifth property, a number as type and 0 as description;
\* an entry with an empty title; an entry with nothing
C14_Witness ==
    /\ Returned
    /\ Len(outcome.proposals) = 3
    /\ SuppliedProposals[1].extra = Str("id-1")
    /\ outcome.proposals[1].type = Num(7)
    /\ outcome.proposals[1].description = Str("Siehe Bewertungsdetails")
    /\ SuppliedProposals[2].title = Str("")
    /\ outcome.proposals[2].title = Str("Verbesserung")
    /\ SuppliedProposals[3].type = Undefined
    /\ outcome.proposals[3].type = Str("GENERAL_IMPROVEMENT")

-----------------------------------------------------------------------------
(* C15: word_count and summary                                             *)

\* C15 as stated: word_count is result.word_count when present and 0 when
\* absent; summary is result.summary when present and 'Bewertung
\* abgeschlossen' when absent.
\* Violated: a summary that is the empty string is present and is replaced.
C15_PresentScalarsKept ==
    (Returned /\ result.word_count.t \in {"number", "undefined"}) =>
        /\ outcome.word_count =
              IF Present(result.word_count) THEN result.word_count ELSE Num(0)
        /\ outcome.summary =
              IF Present(result.summary) THEN result.summary
              ELSE Str("Bewertung abgeschlossen")

\* C15 (amended): word_count is result.word_count when that is truthy and
\* 0 when it is missing or falsy; summary is result.summary when that is
\* truthy and 'Bewertung abgeschlossen' when it is missing or falsy (null,
\* the empty string, 0).
C15_TruthyScalarsKept ==
    Returned =>
        /\ outcome.word_count =
              IF Truthy(result.word_count) THEN result.word_count ELSE Num(0)
        /\ outcome.summary =
              IF Truthy(result.summary) THEN result.summary
              ELSE Str("Bewertung abgeschlossen")

\* a word count kept beside an empty summary replaced
C15_Witness ==
    /\ Returned
    /\ result.word_count = Num(105)
    /\ outcome.word_count = Num(105)
    /\ result.summary = Str("")
    /\ outcome.summary = Str("Bewertung abgeschlossen")

-----------------------------------------------------------------------------
(* Vocabulary of the properties of the server                              *)

\* the handler of request r has just answered
Responded(r) == req[r].pc = "responded"

\* validateEvaluationResult was called for request r
Validated(r) == req[r].evaluation.status # "none"

\* the rows request r has stored
EvaluationRowsOf(r) == {i \in 1..Len(evaluations) : evaluations[i].by = r}

ProposalRowsOf(r) == {i \in 1..Len(proposalRows) : proposalRows[i].by = r}

-----------------------------------------------------------------------------
(* C16: the function has no effect                                         *)

-----------------------------------------------------------------------------
(* C17: requests that are not valid                                        *)

\* the field is not in the body, or is null
Missing(v) == v.t \in {"undefined", "null"}

\* the transcript is missing or empty, the duration is missing, or the
\* duration is not 45 or 60
InvalidBody(body) ==
    \/ Missing(body.transcript) \/ body.transcript = Str("")
    \/ Missing(body.duration)
    \/ body.duration \notin {Num(45), Num(60)}

NothingDoneFor(r) ==
    /\ req[r].upstreamCalls = 0
    /\ EvaluationRowsOf(r) = {}
    /\ ProposalRowsOf(r) = {}

\* C17 as stated: a request that is not valid is answered 400 with the
\* error 'Missing transcript or duration' when the transcript is missing
\* or empty or the duration is missing, and with 'Duration must be 45 or 60
\* seconds' otherwise; the provider is not called and nothing is stored.
\* Violated: a duration of 0 is there and is answered with 'Missing
\* transcript or duration'.
C17_MissingOrDurationMessage ==
    \A r \in Reqs :
        (Responded(r) /\ InvalidBody(req[r].body)) =>
            /\ req[r].response.status = 400
            /\ req[r].response.error =
                  IF \/ Missing(req[r].body.transcript)
                     \/ req[r].body.transcript = Str("")
                     \/ Missing(req[r].body.duration)
                  THEN Str("Missing transcript or duration")
                  ELSE Str("Duration must be 45 or 60 seconds")
            /\ NothingDoneFor(r)

\* C17 (amended): a request whose transcript is missing or empty, whose
\* duration is missing, or whose duration is not 45 or 60 is answered with
\* the 4xx status 400 and an error field: 'Missing transcript or duration'
\* when the transcript or the duration is missing or falsy (an empty
\* transcript, a duration of 0), 'Duration must be 45 or 60 seconds'
\* otherwise; for such a request the provider is never called and nothing
\* is stored.
C17_InvalidRequestRejected ==
    \A r \in Reqs :
        /\ (req[r].pc \notin {"idle", "closed", "responded"}) =>
              ~InvalidBody(req[r].body)
        /\ (Responded(r) /\ InvalidBody(req[r].body)) =>
              /\ req[r].response.status = 400
              /\ req[r].response.status \in 400..499
              /\ req[r].response.error =
                    IF ~Truthy(req[r].body.transcript)
                       \/ ~Truthy(req[r].body.duration)
                    THEN Str("Missing transcript or duration")
                    ELSE Str("Duration must be 45 or 60 seconds")
              /\ NothingDoneFor(r)

\* a duration of 30 rejected while the other request has stored its row
C17_Witness ==
    \E r \in Reqs :
        /\ Responded(r)
        /\ req[r].body = Body(Str("Test"), Num(30))
        /\ req[r].response = badRequest("Duration must be 45 or 60 seconds")
        /\ Len(evaluations) = 1

-----------------------------------------------------------------------------
(* C18: the evaluation provider fails                                      *)

\* C18: when the call of the evaluation provider fails for a request (an
\* error response, a timeout, no connection), the provider was called once
\* for that request, the request is answered 500 with the error
\* 'Evaluation failed' and a message, and no row of evaluations or of
\* proposals is stored for it.
C18_UpstreamFailureAnswered500 ==
    \A r \in Reqs :
        req[r].upstream \in UpstreamFailures =>
            /\ Responded(r)
            /\ req[r].upstreamCalls = 1
            /\ req[r].response.status = 500
            /\ req[r].response.error = Str("Evaluation failed")
            /\ req[r].response.message.t = "string"
            /\ req[r].response.message.s # ""
            /\ EvaluationRowsOf(r) = {}
            /\ ProposalRowsOf(r) = {}

\* a timeout answered while the rows of another request are stored
C18_Witness ==
    \E r \in Reqs :
        /\ Responded(r)
        /\ req[r].upstream = "ECONNABORTED"
        /\ req[r].response.message = Str("Evaluation timeout - please try again")
        /\ Len(evaluations) = 1
        /\ Len(proposalRows) = 1

-----------------------------------------------------------------------------
(* C19: the body of the 200 answer                                         *)

NormalizedFields == {"kpis", "proposals", "overall_score", "word_count", "summary"}

\* C19 as stated: the body of a 200 answer holds kpis, proposals,
\* overall_score, word_count and summary as validateEvaluationResult
\* returned them.
\* Violated: the body holds kpis, proposals, evaluation_time and
\* overall_score; word_count and summary are not in it.
C19_BodyIsNormalizedEvaluation ==
    \A r \in Reqs :
        (Responded(r) /\ req[r].response.status = 200) =>
            /\ NormalizedFields \subseteq DOMAIN req[r].response.body
            /\ req[r].response.body.kpis = req[r].evaluation.kpis
            /\ req[r].response.body.proposals = req[r].evaluation.proposals
            /\ req[r].response.body.overall_score = req[r].evaluation.overall_score

-----------------------------------------------------------------------------
(* C20: the statistics after answers                                       *)

\* C20 as stated: the second reading of totalEvaluations is larger than the
\* first by exactly the number of requests sent after the first reading and
\* answered 200 before the second.
\* Violated: a request sent after the first reading has stored its row and
\* is not answered when the second reading is made.
C20_CountGrowsByAnswered ==
    stats.second # NoCount => stats.second - stats.first = stats.oks

\* C20 (amended): every request that is answered 200 has stored exactly one
\* row of evaluations before the answer is sent, and a reading of
\* totalEvaluations made after the answer is larger than a reading made
\* before the request by at least the number of requests sent and answered
\* 200 in between, for any interleaving of requests.
C20_CountGrowsAtLeastByAnswered ==
    /\ \A r \in Reqs :
          (Responded(r) /\ req[r].response.status = 200) =>
              Cardinality(EvaluationRowsOf(r)) = 1
    /\ stats.second # NoCount => stats.second - stats.first >= stats.oks

\* one row before the first reading, one request answered 200 in between
C20_Witness ==
    /\ stats.first = 1
    /\ stats.oks = 1
    /\ stats.second = 2
    /\ Quiet

-----------------------------------------------------------------------------
(* C21: no text of a transcript is stored                                  *)

\* the number of words of a transcript that are separated by spaces
SpaceSeparatedWords(transcript) ==
    CASE transcript = Str("Test") -> 1
      [] transcript = Str("Pitch") -> 1
      [] transcript = Str("Mein Pitch") -> 2

\* storeEvaluation has inserted the row of request r and has not returned to
\* a handler that has ended
Storing(r) ==
    /\ req[r].pc \in {"proposals", "responded"}
    /\ EvaluationRowsOf(r) # {}

\* the columns of the rows of evaluations of request r, the id left out
EvaluationColumnsOf(r) ==
    {[duration |-> evaluations[i].duration,
      kpi_scores |-> evaluations[i].kpi_scores,
      word_count |-> evaluations[i].word_count,
      overall_score |-> evaluations[i].overall_score] :
        i \in EvaluationRowsOf(r)}

RECURSIVE ProposalRowsInOrder(_, _)
ProposalRowsInOrder(r, i) ==
    IF i > Len(proposalRows) THEN <<>>
    ELSE IF proposalRows[i].by = r
         THEN <<[type |-> proposalRows[i].type,
                 count |-> proposalRows[i].count]>>
              \o ProposalRowsInOrder(r, i + 1)
         ELSE ProposalRowsInOrder(r, i + 1)

\* the type and count of the rows of proposals the call of request r has
\* written, followed by those it is about to write
ProposalColumnsOf(r) == ProposalRowsInOrder(r, 1) \o req[r].counts

\* C21: the rows of evaluations hold an id, duration, kpi_scores, word_count
\* and overall_score and nothing else, the rows of proposals an id of an
\* evaluation, a type and a count; and two requests with the same duration,
\* transcripts of different text and the same number of space-separated
\* words, and the same answer of the provider write rows that are equal in
\* every column but the ids.  (by names the request a row belongs to; it is
\* no column.)
C21_RowsIndependentOfTranscriptText ==
    /\ \A i \in 1..Len(evaluations) :
          DOMAIN evaluations[i] \ {"by"} =
              {"id", "duration", "kpi_scores", "word_count", "overall_score"}
    /\ \A i \in 1..Len(proposalRows) :
          DOMAIN proposalRows[i] \ {"by"} = {"evaluation_id", "type", "count"}
    /\ \A r1, r2 \in Reqs :
          ( /\ Storing(r1) /\ Storing(r2)
            /\ req[r1].body.duration = req[r2].body.duration
            /\ req[r1].body.transcript # req[r2].body.transcript
            /\ SpaceSeparatedWords(req[r1].body.transcript)
                   = SpaceSeparatedWords(req[r2].body.transcript)
            /\ req[r1].content = req[r2].content )
          => /\ EvaluationColumnsOf(r1) = EvaluationColumnsOf(r2)
             /\ ProposalColumnsOf(r1) = ProposalColumnsOf(r2)

\* "Test" and "Pitch", both for 45 seconds and with the complete answer:
\* the first call has written its row of evaluations, the second all its
\* rows
C21_Witness ==
    /\ Storing(1) /\ Storing(2)
    /\ req[1].body = Body(Str("Test"), Num(45))
    /\ req[2].body = Body(Str("Pitch"), Num(45))
    /\ req[1].content = JsonOf(CompleteResult)
    /\ req[2].content = JsonOf(CompleteResult)
    /\ req[2].response.status = 200
    /\ ProposalRowsOf(2) # {}

-----------------------------------------------------------------------------
(* C22: POST /api/transcribe with a file that is no audio, or without one  *)

\* C22: a request of POST /api/transcribe whose file is no audio file is
\* answered with status 500 and the error 'Transcription failed', and a
\* request without a file with status 400 and the error 'No audio file
\* provided'.
\* Violated: for the text file the upload middleware hands the error of
\* fileFilter to the error middleware, which answers 500 with the error
\* 'Internal server error'; the handler never runs.
C22_NonAudioTranscriptionFailed ==
    \A r \in Reqs :
        transcriptions[r].pc = "responded" =>
            /\ (transcriptions[r].file.attached /\ ~transcriptions[r].file.audio)
                  => /\ transcriptions[r].response.status = 500
                     /\ transcriptions[r].response.error
                            = Str("Transcription failed")
            /\ ~transcriptions[r].file.attached
                  => /\ transcriptions[r].response.status = 400
                     /\ transcriptions[r].response.error
                            = Str("No audio file provided")

-----------------------------------------------------------------------------
(* Vocabulary of the properties of the DatabaseService                     *)

\* the rows call c of storeEvaluation has inserted
EvaluationsBy(c) == {i \in 1..Len(evaluations) : evaluations[i].by = c}

ProposalsBy(c) == {i \in 1..Len(proposalRows) : proposalRows[i].by = c}

\* the sum over the categories of m of the sum of a category times the
\* lengths of the others: the sum of the means of the categories is
\* MeansNum(m, DOMAIN m) / ProdLen(m, DOMAIN m)
RECURSIVE MeansNum(_, _)
MeansNum(m, S) ==
    IF S = {} THEN 0
    ELSE LET c == CHOOSE x \in S : TRUE
         IN  m[c].sum * ProdLen(m, (DOMAIN m) \ {c}) + MeansNum(m, S \ {c})

-----------------------------------------------------------------------------
(* C25: the overall score storeEvaluation stores                           *)

\* C25: the overall_score of every row of evaluations is the unweighted mean
\* of the means of the categories of the kpi_scores its call was given,
\* whatever the number of categories and of scores in each, where that mean
\* exists (there is a category, and none is empty).
C25_OverallScoreIsMeanOfCategoryMeans ==
    \A c \in Reqs : \A i \in EvaluationsBy(c) :
        LET cats == calls[c].data.kpi_scores.cats
            m == Entries(cats, DOMAIN cats)
            x == evaluations[i].overall_score
        IN  (DOMAIN m # {} /\ NoEmpty(m)) =>
                /\ ~x.nan
                /\ x.num * Cardinality(DOMAIN m) * ProdLen(m, DOMAIN m)
                      = x.den * MeansNum(m, DOMAIN m)

\* categories of means 85 and 75 are stored as 80, and three categories of
\* two, one and three scores of means 85, 70 and 75 as 230/3
C25_Witness ==
    /\ calls[1].data = OverallScoreData
    /\ calls[2].data = ThreeCategoriesData
    /\ Len(evaluations) = 2
    /\ evaluations[1].overall_score = Q(80, 1)
    /\ evaluations[2].overall_score = Q(230, 3)

-----------------------------------------------------------------------------
(* C26: the statistics after successful calls                              *)

\* the types of the proposals handed to the calls of S, and the number of
\* the proposals of a type among them
SubmittedTypes(S) ==
    UNION {{calls[c].data.proposals.items[i].type :
               i \in 1..Len(calls[c].data.proposals.items)} : c \in S}

RECURSIVE Submitted(_, _)
Submitted(type, S) ==
    IF S = {} THEN 0
    ELSE LET c == CHOOSE x \in S : TRUE
             items == calls[c].data.proposals.items
         IN  Cardinality({i \in 1..Len(items) : items[i].type = type})
               + Submitted(type, S \ {c})

\* C26: when getStatistics runs after calls of storeEvaluation that all
\* succeeded, and during none, totalEvaluations is the number of the
\* evaluations stored, recentEvaluations are the last min(10, total) of
\* them, and proposalStats has one entry for every type of proposal handed
\* to the calls, with the number of the proposals of that type, the larger
\* numbers first.
\* Violated: with ten evaluations stored in one second and an eleventh in
\* the same second, the ten rows the query returns may be the first ten.
C26_StatisticsOfSuccessfulCalls ==
    (statistics.pc = "done" /\ statistics.quiet) =>
        LET total == Cardinality(EvaluationsBy(0))
                       + Cardinality(statistics.seen)
            stat == statistics.proposalStats
        IN  /\ statistics.totalEvaluations = total
            /\ statistics.recentEvaluations =
                   {evaluations[i].id :
                       i \in {j \in 1..total : j > total - recentLimit}}
            /\ {stat[i].type : i \in 1..Len(stat)}
                   = SubmittedTypes(statistics.seen)
            /\ Len(stat) = Cardinality(SubmittedTypes(statistics.seen))
            /\ \A i \in 1..Len(stat) :
                   stat[i].total_count = Submitted(stat[i].type, statistics.seen)
            /\ \A i, j \in 1..Len(stat) :
                   i < j => stat[i].total_count >= stat[j].total_count

-----------------------------------------------------------------------------
(* C27: a call of storeEvaluation that rejects                             *)

\* C27: a call of storeEvaluation that has rejected has added no row to
\* evaluations and none to proposals.
\* Violated: the call without proposals has inserted its row of evaluations
\* (line 126) when proposals.forEach throws (line 134); so has a call one
\* of whose INSERTs into proposals fails.
C27_RejectedCallAddedNoRow ==
    \A c \in Reqs :
        calls[c].pc = "rejected" =>
            EvaluationsBy(c) = {} /\ ProposalsBy(c) = {}

-----------------------------------------------------------------------------
(* C28: the ids of calls in flight at the same time                        *)

\* C28: however the INSERTs of the calls of storeEvaluation interleave,
\* every row of proposals carries the id of the row of evaluations its own
\* call inserted, a call that has returned has returned the id of the one
\* row of evaluations it inserted, and no two calls have returned the same
\* id.
C28_OwnIdsUnderInterleaving ==
    /\ \A i \in 1..Len(proposalRows) :
          \E j \in EvaluationsBy(proposalRows[i].by) :
              evaluations[j].id = proposalRows[i].evaluation_id
    /\ \A c \in Reqs :
          calls[c].pc = "returned" =>
              /\ Cardinality(EvaluationsBy(c)) = 1
              /\ \A j \in EvaluationsBy(c) : evaluations[j].id = calls[c].rowId
    /\ \A c, d \in Reqs :
          (c # d /\ calls[c].pc = "returned" /\ calls[d].pc = "returned")
             => calls[c].rowId # calls[d].rowId

\* two calls with proposals of two types each: the first inserted its
\* evaluation first and its proposals after those of the second
C28_Witness ==
    /\ calls[1].pc = "returned" /\ calls[2].pc = "returned"
    /\ evaluations[1].by = 1
    /\ Len(proposalRows) = 4
    /\ proposalRows[1].by = 2
    /\ proposalRows[2].by = 1
    /\ proposalRows[3].by = 2
    /\ proposalRows[4].by = 1

-----------------------------------------------------------------------------
(* C23, C24, C29, C30: the browser                                         *)

\* C23: every recording that has been stopped leads to the results view or
\* to a visible error; the app does not stay in the processing view for
\* ever, also not when the evaluation fails after onRecordingComplete.
C23_StoppedLeadsToResultsOrError ==
    \A s \in Sessions, g \in Triggers :
        (runs[s][g] = "stopping") ~> (ResultsView \/ ErrorView)

\* C24: timeLeft starts at the selected duration, a tick takes exactly one
\* from it and nothing else changes it, it stays within 0..duration, and
\* the tick that brings it to 0 invokes stopRecording and clears the
\* interval, so that at 0 no interval is left to tick or to stop again.
C24_CountdownToAutomaticStop ==
    /\ [](rec.mounted => rec.timeLeft \in 0..rec.duration)
    /\ [](rec.mounted /\ rec.timeLeft = 0 => ~rec.timer /\ ~rec.isRecording)
    /\ [][/\ ~rec.timer /\ rec'.timer =>
                /\ rec'.timeLeft = rec'.duration
                /\ rec'.duration = app.selectedDuration
          /\ TimerTick =>
                /\ rec'.timeLeft = rec.timeLeft - 1
                /\ rec'.timeLeft = 0 =>
                      /\ runs[rec.session]["timer"] = "none"
                      /\ runs'[rec.session]["timer"] = "stopping"
                      /\ ~rec'.timer
          /\ rec.mounted /\ rec'.mounted /\ rec'.timeLeft # rec.timeLeft =>
                TimerTick]_vars

C24_Witness ==
    /\ rec.mounted
    /\ rec.duration = 60
    /\ rec.timeLeft = 0
    /\ runs[rec.session]["timer"] = "stopping"
    /\ runs[rec.session]["click"] = "none"

\* C29: the results view is shown only with an evaluationResult and a
\* selectedDuration of 45 or 60, the recording view only with a
\* selectedDuration of 45 or 60.
C29_ViewsHaveTheirState ==
    /\ ResultsView =>
          /\ app.evaluationResult # 0
          /\ app.selectedDuration \in durations
    /\ RecordingView => app.selectedDuration \in durations

\* C30: a recording sends at most one request to /api/transcribe and at
\* most one to /api/evaluate.
C30_AtMostOneRequestEach ==
    \A s \in Sessions : io[s].transcribe <= 1 /\ io[s].evaluate <= 1

====
